---- MODULE Spec2Model ----
(***************************************************************************)
(* Meningitis surveillance dashboard: the aggregation, classification,    *)
(* forecasting and LISA labelling code of the Streamlit pages, as state   *)
(* machines whose actions are the page renders.                           *)
(***************************************************************************)
EXTENDS Integers, Sequences, FiniteSets, TLC

VARIABLES
    df,               \* the loaded surveillance table (sequence of records)
    page,             \* the page rendered last
    selected_years,   \* year widget value of the last render
    selected_regions, \* region widget value of the last render
    week_range,       \* week slider value of the last render
    stopped,          \* the render ended in st.stop()
    kpis,             \* headline metrics of the last render
    yearly_data,      \* per-year aggregate of the last render
    regional_data,    \* per-region aggregate of the last render
    district_data,    \* per-district aggregate of the last render
    cases_series,     \* reference distribution handed to the risk classifier
    predicted_cases,  \* value classified last
    risk_level,       \* tier the classifier returned for predicted_cases
    risk_page,        \* which classifier ran last
    top_districts,    \* risk column of get_high_risk_districts, by rank
    language,         \* st.session_state.language
    forecast,         \* the last call of make_simple_prediction and its result
    analysis_mode,    \* LISA page: analysis mode radio of the last render
    significance_level, \* LISA page: significance slider, in thousandths
    lisa_cache,       \* st.cache_data entries of compute_lisa_for_year
    lisa_results,     \* LISA page: year -> labelled districts of the last render
    cluster_counts,   \* LISA page: year -> hotspot and coldspot counts shown
    lisa_view,        \* LISA page: the visualization section of the last render
    csv_files,        \* the surveillance CSV at each candidate path
    dataset_cache,    \* st.cache_data entry of load_main_dataset
    messages,         \* st.error / st.warning / st.success elements of the last render
    ml_env,           \* the model files and libraries of the deployment
    ml_models,        \* Predictions page: what the three loaders returned
    horizon,          \* Predictions page: value of the weeks_ahead slider
    predictions,      \* Predictions page: predictions_df of the last render
    geojson,          \* geopandas and the district-boundary file of the deployment
    map_sections,     \* map pages: the sections the last render drew
    explorer,         \* Data Explorer: filters, frames and export of the last render
    temporal          \* Temporal Analysis: epidemic weeks and trend of the last render

aggVars == <<df, page, selected_years, selected_regions, week_range, stopped,
             kpis, yearly_data, regional_data, district_data>>

riskVars == <<cases_series, predicted_cases, risk_level, risk_page, top_districts>>

fcVars == <<language, forecast>>

lisaVars == <<analysis_mode, significance_level, lisa_cache, lisa_results,
              cluster_counts, lisa_view>>

loadVars == <<csv_files, dataset_cache, messages>>

\* the state of the loaders and of the pages that none of the renders above reads
predVars == <<ml_env, ml_models, horizon, predictions>>

geoVars == <<geojson, map_sections>>

restVars == <<loadVars, predVars, geoVars, explorer, temporal>>

\* what a render of a map page leaves alone outside its own frames
otherVars == <<riskVars, fcVars, loadVars, predVars, geojson, explorer, temporal>>

nonAgg == <<riskVars, fcVars, lisaVars, restVars>>

vars == <<aggVars, riskVars, fcVars, lisaVars, restVars>>

-----------------------------------------------------------------------------
(* Bounds of the model *)

MaxRows == 2

RegionNames == {"Nord", "Centre"}
DistrictNames == {"Garoua", "Pitoa", "Mfou"}
RegionOfDistrict == [d \in DistrictNames |-> IF d = "Mfou" THEN "Centre" ELSE "Nord"]
YearVals == {2023, 2024}

WeekVals == {1}

\* float64 values: a rational n/d, NaN or +inf
Num(n, d) == [k |-> "num", n |-> n, d |-> d]
NaN == [k |-> "nan", n |-> 0, d |-> 1]
Inf == [k |-> "inf", n |-> 0, d |-> 1]

\* the population column: the census figure of the district in the year of the
\* row, missing for Mfou before 2024
PopulationOf(d, y) ==
    IF d = "Garoua" THEN (IF y < 2024 THEN Num(1000, 1) ELSE Num(1200, 1))
    ELSE IF d = "Pitoa" THEN Num(2000, 1)
    ELSE IF y < 2024 THEN NaN ELSE Num(4000, 1)

\* (cases, deaths) of one record; deaths may exceed cases (not validated)
CountVals == {<<0, 0>>, <<0, 1>>, <<2, 1>>}

Records ==
    { [region |-> RegionOfDistrict[d], district_clean |-> d, data_year |-> y,
       week_number |-> w, cases |-> c[1], deaths |-> c[2],
       population |-> PopulationOf(d, y)] :
        d \in DistrictNames, y \in YearVals, w \in WeekVals, c \in CountVals }

Tables == UNION { [1..n -> Records] : n \in 0..MaxRows }

-----------------------------------------------------------------------------
(* float64 arithmetic *)

\* x / y on non-negative floats (numpy/pandas true division: no exception)
FDiv(x, y) ==
    IF x.k = "nan" \/ y.k = "nan" THEN NaN
    ELSE IF x.k = "inf" THEN (IF y.k = "inf" THEN NaN ELSE Inf)
    ELSE IF y.k = "inf" THEN Num(0, 1)
    ELSE IF y.n = 0 THEN (IF x.n = 0 THEN NaN ELSE Inf)
    ELSE Num(x.n * y.d, x.d * y.n)

\* x * c for a positive integer constant c
FMul(x, c) == IF x.k = "num" THEN Num(x.n * c, x.d) ELSE x

\* Series.fillna(0)
fillna0(x) == IF x.k = "nan" THEN Num(0, 1) ELSE x

\* Series.replace(0, np.nan) and Series.replace(0, 1) on an integer column
replace0nan(c) == IF c = 0 THEN NaN ELSE Num(c, 1)
replace0one(c) == IF c = 0 THEN Num(1, 1) ELSE Num(c, 1)

\* x > y; every comparison with NaN is False
FGt(x, y) ==
    IF x.k = "nan" \/ y.k = "nan" THEN FALSE
    ELSE IF x.k = "inf" THEN y.k # "inf"
    ELSE IF y.k = "inf" THEN FALSE
    ELSE x.n * y.d > y.n * x.d

FEq(x, y) ==
    IF x.k = "nan" \/ y.k = "nan" THEN FALSE
    ELSE IF x.k = "inf" \/ y.k = "inf" THEN x.k = y.k
    ELSE x.n * y.d = y.n * x.d

IsZero(x) == x.k = "num" /\ x.n = 0
IsFinite(x) == x.k = "num"
InRange0to100(x) == x.k = "num" /\ x.n >= 0 /\ x.n <= 100 * x.d

-----------------------------------------------------------------------------
(* pandas helpers *)

RECURSIVE SumCol(_, _)
\* Series.sum() of an integer column
SumCol(rows, col) ==
    IF rows = <<>> THEN 0 ELSE Head(rows)[col] + SumCol(Tail(rows), col)

\* Series.unique()
Unique(rows, col) == { rows[i][col] : i \in DOMAIN rows }

\* df.groupby(col).agg({'cases': 'sum', 'deaths': 'sum'}): one group per key present
groupby_sum(rows, col) ==
    [g \in Unique(rows, col) |->
        LET grp == SelectSeq(rows, LAMBDA r : r[col] = g)
        IN  [cases |-> SumCol(grp, "cases"), deaths |-> SumCol(grp, "deaths")]]

\* GroupBy 'first' of the population column: the first non-null value of the
\* rows, NaN when every value is null
first_population(rows) ==
    LET known == SelectSeq(rows, LAMBDA r : r.population.k # "nan")
    IN  IF known = <<>> THEN NaN ELSE Head(known).population

\* cases / population * 100000
incidence_raw(cases, population) == FMul(FDiv(Num(cases, 1), population), 100000)

\* keys of the n groups with the largest cases (nlargest(n, 'cases') and
\* sort_values('cases', ascending=False).head(n)); groups tied at the cut are all
\* kept here, pandas keeps the first in row order
nlargest(n, g) ==
    { a \in DOMAIN g : Cardinality({ b \in DOMAIN g : g[b].cases > g[a].cases }) < n }

RECURSIVE Insert(_, _)
Insert(x, s) ==
    IF s = <<>> THEN <<x>>
    ELSE IF x <= Head(s) THEN <<x>> \o s
    ELSE <<Head(s)>> \o Insert(x, Tail(s))

RECURSIVE SortAsc(_)
SortAsc(s) == IF s = <<>> THEN <<>> ELSE Insert(Head(s), SortAsc(Tail(s)))

\* Series.quantile(q / 100), linear interpolation between the order statistics,
\* in exact arithmetic; NaN for an empty series
quantile(series, q) ==
    LET n == Len(series)
        srt == SortAsc(series)
        pos == (n - 1) * q
        lo == (pos \div 100) + 1
        fr == pos % 100
    IN  IF n = 0 THEN NaN
        ELSE IF fr = 0 THEN Num(srt[lo], 1)
        ELSE Num(100 * srt[lo] + fr * (srt[lo + 1] - srt[lo]), 100)

RECURSIVE ColumnOf(_, _, _)
\* the column col of a grouped frame g as a series over the keys ks
ColumnOf(g, ks, col) ==
    IF ks = {} THEN <<>>
    ELSE LET a == CHOOSE a \in ks : TRUE
         IN  <<g[a][col]>> \o ColumnOf(g, ks \ {a}, col)

\* deaths / cases * 100 with no guard
cfr_raw(deaths, cases) == FMul(FDiv(Num(deaths, 1), Num(cases, 1)), 100)

\* (deaths / cases * 100) if cases > 0 else 0
cfr_guarded(deaths, cases) == IF cases > 0 THEN cfr_raw(deaths, cases) ELSE Num(0, 1)

\* (deaths / cases * 100).fillna(0)
cfr_fillna(deaths, cases) == fillna0(cfr_raw(deaths, cases))

\* (deaths / cases.replace(0, np.nan) * 100).fillna(0)
cfr_replace_nan(deaths, cases) ==
    fillna0(FMul(FDiv(Num(deaths, 1), replace0nan(cases)), 100))

\* deaths / cases.replace(0, 1) * 100
cfr_replace_one(deaths, cases) == FMul(FDiv(Num(deaths, 1), replace0one(cases)), 100)

\* a value the render did not compute
NoValue == [k |-> "none", n |-> 0, d |-> 1]
NoFrame == <<>>
NoKpis == [total_cases |-> 0, total_deaths |-> 0, overall_cfr |-> NoValue]

\* Series.round(2) of a non-negative float, half to even
round2(x) ==
    IF x.k # "num" THEN x
    ELSE LET q == (x.n * 100) \div x.d
             r == (x.n * 100) % x.d
         IN  IF 2 * r > x.d \/ (2 * r = x.d /\ q % 2 = 1) THEN Num(q + 1, 100)
             ELSE Num(q, 100)

-----------------------------------------------------------------------------
(* Check/pages/1_Overview.py *)

top_n == 15

\* df[(df['data_year'].isin(selected_years)) & (df['region'].isin(selected_regions))]
filter_years_regions(t, years, regions) ==
    SelectSeq(t, LAMBDA r : r.data_year \in years /\ r.region \in regions)

\* Series.max() of a non-empty integer column and max() of a non-empty list
MaxOf(S) == CHOOSE x \in S : \A y \in S : y <= x

\* ((current - prior) / prior * 100) if prior > 0 else 0, without the test
yoy_change_mut(current, prior) ==
    IF prior = 0 THEN (IF current = 0 THEN NaN ELSE Inf)
    ELSE Num((current - prior) * 100, prior)

\* ((current - prior) / prior * 100) if prior > 0 else 0
yoy_change(current, prior) ==
    IF prior > 0 THEN Num((current - prior) * 100, prior) ELSE Num(0, 1)

\* cases of the rows of one (year, week)
period_cases(rows, year, week) ==
    SumCol(SelectSeq(rows, LAMBDA r : r.data_year = year /\ r.week_number = week), "cases")

compute_kpis(t, years, regions) ==
    LET df_filtered == filter_years_regions(t, years, regions)
        total_cases == SumCol(df_filtered, "cases")
        total_deaths == SumCol(df_filtered, "deaths")
        \* max() of an empty column is NaN, and no row compares equal to NaN
        has_rows == df_filtered # <<>>
        latest_year == MaxOf(Unique(df_filtered, "data_year"))
        latest_week ==
            MaxOf(Unique(SelectSeq(df_filtered, LAMBDA r : r.data_year = latest_year),
                         "week_number"))
        current_week_cases ==
            IF has_rows THEN period_cases(df_filtered, latest_year, latest_week) ELSE 0
        prev_year_cases ==
            IF has_rows THEN period_cases(df_filtered, latest_year - 1, latest_week) ELSE 0
    IN  [total_cases |-> total_cases,
         total_deaths |-> total_deaths,
         overall_cfr |-> cfr_guarded(total_deaths, total_cases),
         current_week_cases |-> current_week_cases,
         prev_year_cases |-> prev_year_cases,
         yoy_change |-> yoy_change(current_week_cases, prev_year_cases)]

get_temporal_data(t, years, regions) ==
    LET g == groupby_sum(filter_years_regions(t, years, regions), "data_year")
    IN  [y \in DOMAIN g |->
            [cases |-> g[y].cases, deaths |-> g[y].deaths,
             cfr |-> cfr_fillna(g[y].deaths, g[y].cases)]]

get_regional_data_mut(t, years, regions) ==
    LET g == groupby_sum(SelectSeq(t, LAMBDA r : r.data_year \in years), "region")
    IN  [x \in DOMAIN g |->
            [total_cases |-> g[x].cases, total_deaths |-> g[x].deaths,
             cfr |-> cfr_fillna(g[x].deaths, g[x].cases),
             population |-> NaN, incidence_rate |-> Num(0, 1)]]

get_regional_data(t, years, regions) ==
    LET df_filtered == filter_years_regions(t, years, regions)
        g == groupby_sum(df_filtered, "region")
    IN  [x \in DOMAIN g |->
            LET population ==
                    first_population(SelectSeq(df_filtered, LAMBDA r : r.region = x))
            IN  [total_cases |-> g[x].cases, total_deaths |-> g[x].deaths,
                 cfr |-> cfr_fillna(g[x].deaths, g[x].cases),
                 population |-> population,
                 incidence_rate |-> fillna0(incidence_raw(g[x].cases, population))]]

\* district_data of get_high_risk_districts, before the risk column is added
district_aggregate(t, years, regions) ==
    LET g == groupby_sum(filter_years_regions(t, years, regions), "district_clean")
    IN  [x \in DOMAIN g |->
            [cases |-> g[x].cases, deaths |-> g[x].deaths,
             cfr |-> cfr_fillna(g[x].deaths, g[x].cases)]]

\* classify_risk of get_high_risk_districts: strict comparisons against the
\* 90th, 75th and 50th percentile of the district totals
classify_risk(cases, series) ==
    IF FGt(Num(cases, 1), quantile(series, 90)) THEN "Critical"
    ELSE IF FGt(Num(cases, 1), quantile(series, 75)) THEN "High"
    ELSE IF FGt(Num(cases, 1), quantile(series, 50)) THEN "Moderate"
    ELSE "Low"

get_high_risk_districts(t, years, regions) ==
    LET dd == district_aggregate(t, years, regions)
        series == ColumnOf(dd, DOMAIN dd, "cases")
    IN  [x \in nlargest(top_n, dd) |->
            [cases |-> dd[x].cases, deaths |-> dd[x].deaths, cfr |-> dd[x].cfr,
             risk_level |-> classify_risk(dd[x].cases, series)]]

-----------------------------------------------------------------------------
(* Check/pages/2_Spatial_Analysis.py and pages/2_Spatial_Analysis_BILINGUAL.py *)

\* both files hold the same prepare_spatial_data
prepare_spatial_data(t, year, regions) ==
    LET df_filtered == SelectSeq(t, LAMBDA r : r.data_year = year /\ r.region \in regions)
        g == groupby_sum(df_filtered, "district_clean")
    IN  [x \in DOMAIN g |->
            LET population ==
                    first_population(SelectSeq(df_filtered,
                                               LAMBDA r : r.district_clean = x))
            IN  [region |-> RegionOfDistrict[x], cases |-> g[x].cases,
                 deaths |-> g[x].deaths,
                 population |-> population,
                 incidence_rate |-> fillna0(incidence_raw(g[x].cases, population)),
                 cfr |-> cfr_replace_nan(g[x].deaths, g[x].cases)]]

RECURSIVE SumKeys(_, _, _)
\* sum of column col over the rows ks of a grouped frame
SumKeys(g, ks, col) ==
    IF ks = {} THEN 0
    ELSE LET a == CHOOSE a \in ks : TRUE
         IN  g[a][col] + SumKeys(g, ks \ {a}, col)

RECURSIVE SumPopulation(_, _)
\* 'population': 'sum' over the rows ks of a grouped frame; sum skips the nulls
SumPopulation(g, ks) ==
    IF ks = {} THEN 0
    ELSE LET a == CHOOSE a \in ks : TRUE
         IN  (IF g[a].population.k = "nan" THEN 0 ELSE g[a].population.n)
                + SumPopulation(g, ks \ {a})

\* district_data.groupby('region') with the rate columns of the regional comparison
regional_summary(dd) ==
    [x \in { dd[a].region : a \in DOMAIN dd } |->
        LET ks == { a \in DOMAIN dd : dd[a].region = x }
            c == SumKeys(dd, ks, "cases")
            m == SumKeys(dd, ks, "deaths")
            population == Num(SumPopulation(dd, ks), 1)
        IN  [total_cases |-> c, total_deaths |-> m, cfr |-> cfr_fillna(m, c),
             population |-> population,
             incidence_rate |-> incidence_raw(c, population)]]

\* the Summary Statistics row of Check/pages/2_Spatial_Analysis.py
spatial_summary(dd) ==
    LET c == SumKeys(dd, DOMAIN dd, "cases")
        m == SumKeys(dd, DOMAIN dd, "deaths")
    IN  [total_cases |-> c, total_deaths |-> m, overall_cfr |-> cfr_raw(m, c)]

\* the Summary Statistics row of pages/2_Spatial_Analysis_BILINGUAL.py (no CFR)
spatial_summary_bilingual(dd) ==
    [total_cases |-> SumKeys(dd, DOMAIN dd, "cases"),
     total_deaths |-> SumKeys(dd, DOMAIN dd, "deaths"),
     overall_cfr |-> NoValue]

-----------------------------------------------------------------------------
(* pages/1_Overview.py *)

overview_kpis(t) ==
    LET total_cases == SumCol(t, "cases")
        total_deaths == SumCol(t, "deaths")
    IN  [total_cases |-> total_cases, total_deaths |-> total_deaths,
         overall_cfr |-> cfr_guarded(total_deaths, total_cases)]

overview_top_districts(t) ==
    LET g == groupby_sum(t, "district_clean")
    IN  [x \in nlargest(top_n, g) |->
            [cases |-> g[x].cases, deaths |-> g[x].deaths,
             cfr |-> cfr_fillna(g[x].deaths, g[x].cases)]]

-----------------------------------------------------------------------------
(* minimal_dashboard.py *)

minimal_filtered_df(t, years, regions, weeks) ==
    SelectSeq(t, LAMBDA r : /\ r.data_year \in years
                            /\ r.region \in regions
                            /\ r.week_number >= weeks[1]
                            /\ r.week_number <= weeks[2])

minimal_yearly_summary(f) ==
    LET g == groupby_sum(f, "data_year")
    IN  [y \in DOMAIN g |->
            [cases |-> g[y].cases, deaths |-> g[y].deaths,
             cfr |-> cfr_replace_one(g[y].deaths, g[y].cases)]]

minimal_regional_summary(f) ==
    LET g == groupby_sum(f, "region")
    IN  [x \in DOMAIN g |->
            [total_cases |-> g[x].cases, total_deaths |-> g[x].deaths,
             cfr |-> cfr_replace_one(g[x].deaths, g[x].cases)]]

minimal_district_summary(f) ==
    LET g == groupby_sum(f, "district_clean")
    IN  [x \in DOMAIN g |->
            [cases |-> g[x].cases, deaths |-> g[x].deaths,
             cfr |-> round2(cfr_replace_one(g[x].deaths, g[x].cases))]]

-----------------------------------------------------------------------------
(* pages/4_Predictions.py and pages/4_Predictions_BILINGUAL.py: risk tiers *)

classify_risk_level_mut(predicted, series) ==
    IF FGt(predicted, quantile(series, 90)) THEN "Critical"
    ELSE IF FGt(quantile(series, 75), predicted) THEN "High"
    ELSE IF FGt(predicted, quantile(series, 50)) THEN "Moderate"
    ELSE "Low"

\* variant whose lowest boundary is inclusive
classify_risk_level_mutge(predicted, series) ==
    IF FGt(predicted, quantile(series, 90)) THEN "Critical"
    ELSE IF FGt(predicted, quantile(series, 75)) THEN "High"
    ELSE IF ~FGt(quantile(series, 50), predicted) THEN "Moderate"
    ELSE "Low"

\* pages/4_Predictions.py classify_risk_level; the tier stands for the
\* (label, css class, colour) triple returned
classify_risk_level(predicted, series) ==
    LET p90 == quantile(series, 90)
        p75 == quantile(series, 75)
        p50 == quantile(series, 50)
    IN  IF FGt(predicted, p90) THEN "Critical"
        ELSE IF FGt(predicted, p75) THEN "High"
        ELSE IF FGt(predicted, p50) THEN "Moderate"
        ELSE "Low"

classify_risk_level_bilingual_mut(predicted, series) ==
    IF ~FGt(quantile(series, 90), predicted) THEN "Critical"
    ELSE IF ~FGt(quantile(series, 75), predicted) THEN "High"
    ELSE IF ~FGt(quantile(series, 50), predicted) THEN "Moderate"
    ELSE "Low"

\* pages/4_Predictions_BILINGUAL.py classify_risk_level; the label text follows
\* the language, the tier does not
classify_risk_level_bilingual(predicted, series) ==
    LET p50 == quantile(series, 50)
        p75 == quantile(series, 75)
        p90 == quantile(series, 90)
    IN  IF FGt(predicted, p90) THEN "Critical"
        ELSE IF FGt(predicted, p75) THEN "High"
        ELSE IF FGt(predicted, p50) THEN "Moderate"
        ELSE "Low"

RECURSIVE SortDesc(_)
\* the values of a series, largest first
SortDesc(s) ==
    IF s = <<>> THEN <<>>
    ELSE LET r == SortAsc(s) IN <<r[Len(r)]>> \o SortDesc(SubSeq(r, 1, Len(r) - 1))

\* the risk column of get_high_risk_districts for district totals `series`:
\* nlargest(top_n, 'cases') and classify_risk applied to every row kept
high_risk_column(series) ==
    LET ranked == SortDesc(series)
        kept == IF Len(ranked) <= top_n THEN ranked ELSE SubSeq(ranked, 1, top_n)
    IN  [i \in DOMAIN kept |->
            [cases |-> kept[i], risk_level |-> classify_risk(kept[i], series)]]

-----------------------------------------------------------------------------
(* pages/4_Predictions.py and pages/4_Predictions_BILINGUAL.py: the forecast *)

\* a forecast avg * trend_factor ** dampening, kept exact: (n / d) * (tn / td) ^ (e / 100)
Forecast(n, d, tn, td, e) == [k |-> "num", n |-> n, d |-> d, tn |-> tn, td |-> td, e |-> e]
\* the function returned None
None == [k |-> "None", n |-> 0, d |-> 1, tn |-> 1, td |-> 1, e |-> 100]

\* avg * (trend ** dampening): x ** 1.0 = x, 1.0 ** y = 1.0 and 0.0 ** y = 0.0 fold
\* into the rational part, any other power stays symbolic
trend_adjusted(avg, trend, dampening) ==
    IF dampening = 100 THEN Forecast(avg.n * trend.n, avg.d * trend.d, 1, 1, 100)
    ELSE IF trend.n = trend.d THEN Forecast(avg.n, avg.d, 1, 1, 100)
    ELSE IF trend.n = 0 THEN Forecast(0, 1, 1, 1, 100)
    ELSE Forecast(avg.n, avg.d, trend.n, trend.d, dampening)

\* max(0, predicted): the base of the power is positive, the sign is the sign of n
max0(x) == IF x.k = "num" /\ x.n < 0 THEN Forecast(0, 1, 1, 1, 100) ELSE x

IsNonNegative(x) == x.k = "num" /\ x.n >= 0 /\ x.d > 0 /\ x.tn >= 0 /\ x.td > 0

RECURSIVE Gcd(_, _)
Gcd(a, b) == IF b = 0 THEN a ELSE Gcd(b, a % b)

\* n / d = a / b for d, b > 0 and n, a >= 0, compared in lowest terms
SameRatio(n, d, a, b) ==
    /\ n \div Gcd(n, d) = a \div Gcd(a, b)
    /\ d \div Gcd(n, d) = b \div Gcd(a, b)

\* forecast x is the plain number a / b
IsNumber(x, a, b) ==
    /\ x.k = "num" /\ x.e = 100 /\ x.tn = x.td
    /\ IF x.n < 0 \/ a < 0 THEN x.n * b = a * x.d ELSE SameRatio(x.n, x.d, a, b)

\* df[df['district_clean'] == district]
district_rows(t, district) == SelectSeq(t, LAMBDA r : r.district_clean = district)

\* (data_year, week_number) as one sort key
PeriodKey(r) == r.data_year * 100 + r.week_number

RECURSIVE InsertRow(_, _)
\* stable insertion into rows sorted by descending period
InsertRow(r, rows) ==
    IF rows = <<>> THEN <<r>>
    ELSE IF PeriodKey(r) >= PeriodKey(Head(rows)) THEN <<r>> \o rows
    ELSE <<Head(rows)>> \o InsertRow(r, Tail(rows))

RECURSIVE SortRowsDesc(_)
SortRowsDesc(rows) ==
    IF rows = <<>> THEN <<>>
    ELSE InsertRow(rows[1], SortRowsDesc(Tail(rows)))

Reverse(s) == [i \in DOMAIN s |-> s[Len(s) + 1 - i]]

\* DataFrame.nlargest(n, ['data_year', 'week_number']), ties in row order
nlargest_period(n, rows) ==
    LET srt == SortRowsDesc(rows)
    IN  IF Len(srt) <= n THEN srt ELSE SubSeq(srt, 1, n)

\* DataFrame.nsmallest(n, ['data_year', 'week_number'])
nsmallest_period(n, rows) ==
    LET srt == Reverse(SortRowsDesc(Reverse(rows)))
    IN  IF Len(srt) <= n THEN srt ELSE SubSeq(srt, 1, n)

\* DataFrame.tail(n) and DataFrame.head(n)
tail(rows, n) == IF Len(rows) <= n THEN rows ELSE SubSeq(rows, Len(rows) - n + 1, Len(rows))
head(rows, n) == IF Len(rows) <= n THEN rows ELSE SubSeq(rows, 1, n)

\* Series.mean() of a non-empty integer column
mean(rows) == Num(SumCol(rows, "cases"), Len(rows))

\* dampening = max(1.0 - (weeks_ahead - 1) * 0.05, 0.7), in hundredths
dampening_of(weeks_ahead) ==
    LET dmp == 100 - (weeks_ahead - 1) * 5 IN IF dmp > 70 THEN dmp ELSE 70

make_simple_prediction_bilingual_mut(t, district, weeks_ahead) ==
    LET dd == district_rows(t, district)
        recent_data == nlargest_period(12, dd)
        avg_cases == mean(recent_data)
    IN  IF Len(dd) < 4 THEN None
        ELSE max0(trend_adjusted(avg_cases, Num(1, 1), dampening_of(weeks_ahead)))

\* variant that divides by the mean of the 8 earlier observations without a test:
\* numpy returns inf or nan for a zero mean
make_simple_prediction_bilingual_mutdiv(t, district, weeks_ahead) ==
    LET dd == district_rows(t, district)
        recent_data == nlargest_period(12, dd)
        avg_cases == mean(recent_data)
        recent_4 == mean(nlargest_period(4, recent_data))
        previous_8 == mean(nsmallest_period(8, nlargest_period(12, recent_data)))
    IN  IF Len(dd) < 12 THEN None
        ELSE IF previous_8.n = 0
        THEN [k |-> IF recent_4.n = 0 \/ avg_cases.n = 0 THEN "nan" ELSE "inf",
              n |-> 0, d |-> 1, tn |-> 1, td |-> 1, e |-> 100]
        ELSE max0(trend_adjusted(avg_cases,
                                 Num(recent_4.n * previous_8.d, recent_4.d * previous_8.n),
                                 dampening_of(weeks_ahead)))

\* variant whose base average is the mean of the 4 most recent observations
make_simple_prediction_bilingual_mutavg(t, district, weeks_ahead) ==
    LET dd == district_rows(t, district)
        recent_data == nlargest_period(12, dd)
        recent_4 == mean(nlargest_period(4, recent_data))
        previous_8 == mean(nsmallest_period(8, nlargest_period(12, recent_data)))
        trend_factor ==
            IF previous_8.n > 0
            THEN Num(recent_4.n * previous_8.d, recent_4.d * previous_8.n)
            ELSE Num(1, 1)
    IN  IF Len(dd) < 12 THEN None
        ELSE max0(trend_adjusted(recent_4, trend_factor, dampening_of(weeks_ahead)))

\* pages/4_Predictions_BILINGUAL.py make_simple_prediction
make_simple_prediction_bilingual(t, district, weeks_ahead) ==
    LET dd == district_rows(t, district)
        recent_data == nlargest_period(12, dd)
        avg_cases == mean(recent_data)
        recent_4 == mean(nlargest_period(4, recent_data))
        previous_8 == mean(nsmallest_period(8, nlargest_period(12, recent_data)))
        trend_factor ==
            IF Len(recent_data) >= 12
            THEN IF previous_8.n > 0
                 THEN Num(recent_4.n * previous_8.d, recent_4.d * previous_8.n)
                 ELSE Num(1, 1)
            ELSE Num(1, 1)
    IN  IF Len(dd) < 12 THEN None
        ELSE max0(trend_adjusted(avg_cases, trend_factor, dampening_of(weeks_ahead)))

\* the forecast of pages/4_Predictions.py before max(0, .)
simple_trend(recent) ==
    LET last4 == mean(tail(recent, 4))
        older_avg == mean(head(recent, 4))
        newer_avg == mean(tail(recent, 4))
    IN  IF Len(recent) >= 8
        THEN \* predicted_cases += (newer_avg - older_avg) * 0.5
             Forecast(2 * last4.n * older_avg.d + newer_avg.n * older_avg.d
                        - older_avg.n * newer_avg.d,
                      2 * newer_avg.d * older_avg.d, 1, 1, 100)
        ELSE Forecast(last4.n, last4.d, 1, 1, 100)

make_simple_prediction_mut3(t, district, weeks_ahead) ==
    LET recent == tail(district_rows(t, district), 12)
    IN  IF Len(recent) < 3 THEN None ELSE max0(simple_trend(recent))

make_simple_prediction_mutneg(t, district, weeks_ahead) ==
    LET recent == tail(district_rows(t, district), 12)
    IN  IF Len(recent) < 4 THEN None ELSE simple_trend(recent)

make_simple_prediction_mutall(t, district, weeks_ahead) ==
    LET recent == tail(t, 12)
    IN  IF Len(district_rows(t, district)) < 4 THEN None ELSE max0(simple_trend(recent))

\* pages/4_Predictions.py make_simple_prediction; weeks_ahead is not used
make_simple_prediction(t, district, weeks_ahead) ==
    LET dd == district_rows(t, district)
        recent == tail(dd, 12)
    IN  IF Len(recent) < 4 THEN None ELSE max0(simple_trend(recent))

-----------------------------------------------------------------------------
(* Page renders *)

WeekRanges == {<<1, 53>>, <<2, 53>>}

\* st.error / st.warning followed by st.stop(): nothing below is rendered
Halt(p) ==
    /\ page' = p
    /\ stopped' = TRUE
    /\ kpis' = NoKpis
    /\ yearly_data' = NoFrame
    /\ regional_data' = NoFrame
    /\ district_data' = NoFrame

\* Check/pages/1_Overview.py main()
CheckOverviewMain ==
    /\ page = "none"
    /\ \E years \in SUBSET Unique(df, "data_year"), regions \in SUBSET Unique(df, "region") :
        /\ selected_years' = years
        /\ selected_regions' = regions
        /\ IF df = <<>> \/ years = {} \/ regions = {}
           THEN Halt("check_overview")
           ELSE /\ page' = "check_overview"
                /\ stopped' = FALSE
                /\ kpis' = compute_kpis(df, years, regions)
                /\ yearly_data' = get_temporal_data(df, years, regions)
                /\ regional_data' = get_regional_data(df, years, regions)
                /\ district_data' = get_high_risk_districts(df, years, regions)
    /\ UNCHANGED <<df, week_range, nonAgg>>

\* Check/pages/2_Spatial_Analysis.py main()
\* what gpd.read_file finds at the path of the district boundaries
GeoFileStates == {"missing", "unreadable", "ok"}
GeoEnvs == [geopandas_available : BOOLEAN, file : GeoFileStates]
GeoAvailable == [geopandas_available |-> TRUE, file |-> "ok"]

\* load_geojson(): None without geopandas and when the file cannot be read
load_geojson(g) ==
    IF ~g.geopandas_available THEN "None"
    ELSE IF g.file = "ok" THEN "gdf"
    ELSE "None"

\* the sections main() of a Spatial Analysis page draws after the filters: the
\* choropleth when gdf is not None, else the bar chart of the districts
spatial_sections(gdf) ==
    IF gdf # "None" THEN {"summary", "choropleth", "rankings", "regional", "insights"}
    ELSE {"summary", "bar_chart", "rankings", "regional", "insights"}

GeoIdle ==
    /\ geojson = GeoAvailable
    /\ map_sections = {}

CheckSpatialMain ==
    /\ page = "none"
    /\ IF df = <<>>
       THEN /\ Halt("check_spatial")
            /\ map_sections' = {}
            /\ UNCHANGED <<selected_years, selected_regions>>
       ELSE \E year \in Unique(df, "data_year"), regions \in SUBSET Unique(df, "region") :
            /\ selected_years' = {year}
            /\ selected_regions' = regions
            /\ IF regions = {}
               THEN Halt("check_spatial") /\ map_sections' = {}
               ELSE LET dd == prepare_spatial_data(df, year, regions)
                    IN  /\ page' = "check_spatial"
                        /\ stopped' = FALSE
                        /\ district_data' = dd
                        /\ kpis' = spatial_summary(dd)
                        /\ regional_data' = regional_summary(dd)
                        /\ yearly_data' = NoFrame
                        /\ map_sections' = spatial_sections(load_geojson(geojson))
    /\ UNCHANGED <<df, week_range, lisaVars, otherVars>>

\* pages/2_Spatial_Analysis_BILINGUAL.py main()
SpatialBilingualMain ==
    /\ page = "none"
    /\ IF df = <<>>
       THEN /\ Halt("spatial_bilingual")
            /\ map_sections' = {}
            /\ UNCHANGED <<selected_years, selected_regions>>
       ELSE \E year \in Unique(df, "data_year"), regions \in SUBSET Unique(df, "region") :
            /\ selected_years' = {year}
            /\ selected_regions' = regions
            /\ IF regions = {}
               THEN Halt("spatial_bilingual") /\ map_sections' = {}
               ELSE LET dd == prepare_spatial_data(df, year, regions)
                    IN  /\ page' = "spatial_bilingual"
                        /\ stopped' = FALSE
                        /\ district_data' = dd
                        /\ kpis' = spatial_summary_bilingual(dd)
                        /\ regional_data' = regional_summary(dd)
                        /\ yearly_data' = NoFrame
                        /\ map_sections' = spatial_sections(load_geojson(geojson))
    /\ UNCHANGED <<df, week_range, lisaVars, otherVars>>

\* pages/1_Overview.py main(): no filter widgets
OverviewMain ==
    /\ IF df = <<>>
       THEN Halt("overview")
       ELSE /\ page' = "overview"
            /\ stopped' = FALSE
            /\ kpis' = overview_kpis(df)
            /\ district_data' = overview_top_districts(df)
            /\ yearly_data' = NoFrame
            /\ regional_data' = NoFrame
    /\ UNCHANGED <<df, selected_years, selected_regions, week_range, nonAgg>>

\* minimal_dashboard.py, the script body
MinimalDashboard ==
    /\ page = "none"
    /\ IF df = <<>>
       THEN Halt("minimal") /\ UNCHANGED <<selected_years, selected_regions, week_range>>
       ELSE \E years \in SUBSET Unique(df, "data_year"),
               regions \in SUBSET Unique(df, "region"), weeks \in WeekRanges :
            LET filtered_df == minimal_filtered_df(df, years, regions, weeks)
            IN  /\ selected_years' = years
                /\ selected_regions' = regions
                /\ week_range' = weeks
                /\ IF filtered_df = <<>>
                   THEN Halt("minimal")
                   ELSE /\ page' = "minimal"
                        /\ stopped' = FALSE
                        /\ kpis' = overview_kpis(filtered_df)
                        /\ yearly_data' = minimal_yearly_summary(filtered_df)
                        /\ regional_data' = minimal_regional_summary(filtered_df)
                        /\ district_data' = minimal_district_summary(filtered_df)
    /\ UNCHANGED <<df, nonAgg>>

AggIdle ==
    /\ page = "none"
    /\ selected_years = {}
    /\ selected_regions = {}
    /\ week_range = <<1, 53>>
    /\ stopped = FALSE
    /\ kpis = NoKpis
    /\ yearly_data = NoFrame
    /\ regional_data = NoFrame
    /\ district_data = NoFrame

\* pages/5_Data_Explorer_BILINGUAL.py before its first render
NoExplorer ==
    [show_district_filter |-> FALSE, selected_districts |-> {},
     cases_filter |-> "all", cases_min |-> 0, cases_max |-> 1000,
     selected_columns |-> {}, records |-> 0, max_rows |-> 0,
     df_filtered |-> <<>>, df_display |-> <<>>, exported |-> FALSE,
     csv_data |-> [header |-> {}, lines |-> <<>>]]

\* pages/3_Temporal_Analysis_BILINGUAL.py before its first render
NoTemporal ==
    [yearly_weekly |-> <<>>, epidemic_weeks |-> {}, threshold |-> NoValue,
     compared |-> <<>>, change |-> NoValue, error |-> "none"]

\* A widget interaction ends the script run: Streamlit reruns the page script from
\* the top, and every frame of the previous run is discarded
Rerun ==
    /\ page # "none"
    /\ page' = "none"
    /\ selected_years' = {}
    /\ selected_regions' = {}
    /\ week_range' = <<1, 53>>
    /\ stopped' = FALSE
    /\ kpis' = NoKpis
    /\ yearly_data' = NoFrame
    /\ regional_data' = NoFrame
    /\ district_data' = NoFrame
    /\ map_sections' = {}
    /\ explorer' = NoExplorer
    /\ temporal' = NoTemporal
    /\ UNCHANGED <<df, lisaVars, riskVars, fcVars, loadVars, predVars, geojson>>

-----------------------------------------------------------------------------
(* The risk classifiers applied to a reference distribution *)

MaxRef == 4
RiskVals == {0, 20, 80}
RankingScenario == <<100, 80, 50, 20, 5>>
RefSeries == UNION { [1..n -> RiskVals] : n \in 0..MaxRef } \cup {RankingScenario}

\* values handed to the classifier: case counts around the reference values and
\* the three percentiles themselves
PredictedVals(series) ==
    { Num(v, 1) : v \in {0, 1, 20, 50, 80, 81, 101} }
    \cup ({ quantile(series, q) : q \in {50, 75, 90} } \ {NaN})

RiskIdle ==
    /\ cases_series = <<>>
    /\ predicted_cases = NoValue
    /\ risk_level = "none"
    /\ risk_page = "none"
    /\ top_districts = <<>>

\* pages/4_Predictions.py: classify_risk_level(predicted_cases, district_data)
PredictionsClassify ==
    /\ \E v \in PredictedVals(cases_series) :
        /\ predicted_cases' = v
        /\ risk_level' = classify_risk_level(v, cases_series)
    /\ risk_page' = "predictions"
    /\ UNCHANGED <<aggVars, fcVars, lisaVars, restVars, cases_series, top_districts>>

\* pages/4_Predictions_BILINGUAL.py: classify_risk_level(predicted_cases, district_data, lang)
PredictionsBilingualClassify ==
    /\ \E v \in PredictedVals(cases_series) :
        /\ predicted_cases' = v
        /\ risk_level' = classify_risk_level_bilingual(v, cases_series)
    /\ risk_page' = "predictions_bilingual"
    /\ UNCHANGED <<aggVars, fcVars, lisaVars, restVars, cases_series, top_districts>>

\* Check/pages/1_Overview.py: get_high_risk_districts on district totals cases_series
HighRiskDistricts ==
    /\ top_districts' = high_risk_column(cases_series)
    /\ risk_page' = "check_overview"
    /\ predicted_cases' = NoValue
    /\ risk_level' = "none"
    /\ UNCHANGED <<aggVars, fcVars, lisaVars, restVars, cases_series>>

-----------------------------------------------------------------------------
(* The forecast applied to a district's history *)

MaxHist == 12
HistoryVals == {0, 5, 50}
HorizonVals == 1..12
Languages == {"en", "fr"}

\* n observations of the same value
Rep(v, n) == [i \in 1..n |-> v]

\* case histories, oldest first: an older level followed by a recent level
Histories ==
    { Rep(a, i) \o Rep(b, j) :
        a \in HistoryVals, b \in HistoryVals, i \in 0..MaxHist, j \in 0..MaxHist }

\* the weekly rows of one district, in chronological order
HistoryRows(district, h) ==
    [i \in DOMAIN h |->
        [region |-> RegionOfDistrict[district], district_clean |-> district,
         data_year |-> 2023 + ((i - 1) \div 53), week_number |-> ((i - 1) % 53) + 1,
         cases |-> h[i], deaths |-> 0]]

\* what the table may hold for another district
OtherDistrictRows == { <<>>, HistoryRows("Mfou", Rep(50, 4)) }

NoForecast ==
    [page |-> "none", district |-> "none", weeks_ahead |-> 0, history |-> <<>>,
     rerun |-> FALSE, value |-> None]

ForecastIdle ==
    /\ language = "en"
    /\ forecast = NoForecast

\* A script run calls the forecast with the widget values of the session: any
\* values on the first run after the selection changed, the same values on a rerun
\* that another interaction (language, reload) triggers
SameSelection(p, district, weeks_ahead) ==
    \/ forecast.page = "none"
    \/ /\ forecast.page = p
       /\ forecast.district = district
       /\ forecast.weeks_ahead = weeks_ahead

\* the user moves the horizon slider or picks other regions: the predictions shown
\* are discarded
ChangeSelection ==
    /\ forecast.page # "none"
    /\ forecast' = NoForecast
    /\ UNCHANGED <<aggVars, riskVars, lisaVars, restVars, language>>

\* pages/4_Predictions.py: make_simple_prediction(df, district, weeks_ahead)
MakeSimplePrediction ==
    /\ \E district \in Unique(df, "district_clean"), weeks_ahead \in HorizonVals :
        /\ SameSelection("predictions", district, weeks_ahead)
        /\ forecast' = [page |-> "predictions", district |-> district,
                     weeks_ahead |-> weeks_ahead,
                     history |-> district_rows(df, district),
                     rerun |-> forecast.page # "none",
                     value |-> make_simple_prediction(df, district, weeks_ahead)]
    /\ UNCHANGED <<aggVars, riskVars, lisaVars, restVars, language>>

\* pages/4_Predictions_BILINGUAL.py: make_simple_prediction(df, district, weeks_ahead)
MakeSimplePredictionBilingual ==
    /\ \E district \in Unique(df, "district_clean"), weeks_ahead \in HorizonVals :
        /\ SameSelection("predictions_bilingual", district, weeks_ahead)
        /\ forecast' = [page |-> "predictions_bilingual", district |-> district,
                     weeks_ahead |-> weeks_ahead,
                     history |-> district_rows(df, district),
                     rerun |-> forecast.page # "none",
                     value |-> make_simple_prediction_bilingual(df, district, weeks_ahead)]
    /\ UNCHANGED <<aggVars, riskVars, lisaVars, restVars, language>>

\* load_main_dataset is cached for an hour: after expiry the CSV is read again and
\* may hold other rows for the other districts
ReloadDataset ==
    /\ \E other \in OtherDistrictRows :
        /\ df' = district_rows(df, "Garoua") \o other
        /\ df' # df
    /\ UNCHANGED <<page, selected_years, selected_regions, week_range, stopped, kpis,
                   yearly_data, regional_data, district_data, riskVars, fcVars, lisaVars,
                   restVars>>

\* the sidebar language selector writes st.session_state.language
SwitchLanguage ==
    /\ \E l \in Languages \ {language} : language' = l
    /\ UNCHANGED <<aggVars, riskVars, lisaVars, restVars, forecast>>

-----------------------------------------------------------------------------
(* pages/6_LISA_Analysis.py *)

\* lang_config_UPDATED.py: get_text(key, language) for the cluster labels
get_text(key, lang) ==
    CASE key = "high_high" -> IF lang = "fr" THEN "Eleve-Eleve" ELSE "High-High"
      [] key = "low_high" -> IF lang = "fr" THEN "Faible-Eleve" ELSE "Low-High"
      [] key = "low_low" -> IF lang = "fr" THEN "Faible-Faible" ELSE "Low-Low"
      [] key = "high_low" -> IF lang = "fr" THEN "Eleve-Faible" ELSE "High-Low"
      [] key = "not_significant" ->
            IF lang = "fr" THEN "Non Significatif" ELSE "Not Significant"
      [] OTHER -> key

\* districts of the GeoJSON; a district of the table may have no geometry
GeoDistricts == {"Garoua", "Pitoa"}

\* no weekly rows, or one district total per year: no cases, cases in a district
\* with a geometry, cases in a district without
LisaRow(y, d, c) ==
    [region |-> RegionOfDistrict[d], district_clean |-> d, data_year |-> y,
     week_number |-> 1, cases |-> c, deaths |-> 0, population |-> PopulationOf(d, y)]
LisaYearRows(y) ==
    { <<>>, <<LisaRow(y, "Garoua", 0)>>, <<LisaRow(y, "Garoua", 2)>>,
      <<LisaRow(y, "Mfou", 2)>> }
LisaTables == { a \o b : a \in LisaYearRows(2023), b \in LisaYearRows(2024) }

\* what Moran_Local(y, w) returns for one district: the quadrant q and the
\* pseudo p-value p_sim of 999 random permutations, in thousandths
QuadrantVals == 1..4
PSimVals == {30, 50, 70}
MoranOutcomes ==
    { m \in [GeoDistricts -> [q : QuadrantVals, p_sim : PSimVals]] :
        m["Pitoa"] = [q |-> 3, p_sim |-> 30] }

\* the slider: 0.01 to 0.10 in steps of 0.01, default 0.05 (thousandths)
SignificanceLevels == {10, 50, 100}
AnalysisModes == {"Single Year", "Multi-Year Comparison", "All Years Grid"}

\* sig_mask = lisa.p_sim < 0.05 (thousandths); the level of the slider is not an
\* argument of compute_lisa_for_year
sig_mask(p_sim) == p_sim < 50

\* the cluster label of one district
lisa_cluster(q, p_sim, lang) ==
    IF ~sig_mask(p_sim) THEN get_text("not_significant", lang)
    ELSE CASE q = 1 -> get_text("high_high", lang)
           [] q = 2 -> get_text("low_high", lang)
           [] q = 3 -> get_text("low_low", lang)
           [] q = 4 -> get_text("high_low", lang)

\* cases of the year per district of the GeoJSON (left merge, fillna(0))
gdf_year_cases(rows, year) ==
    LET year_data == groupby_sum(SelectSeq(rows, LAMBDA r : r.data_year = year),
                                 "district_clean")
    IN  [d \in GeoDistricts |->
            [cases |-> IF d \in DOMAIN year_data THEN year_data[d].cases ELSE 0]]

\* variant without the zero-cases test: the statistic is computed for every year
compute_lisa_for_year_mut(rows, year, moran, lang) ==
    LET g == gdf_year_cases(rows, year)
    IN  [k |-> "frame",
         rows |-> [d \in GeoDistricts |->
                     [cases |-> g[d].cases,
                      lisa_quadrant |-> moran[d].q,
                      lisa_pvalue |-> moran[d].p_sim,
                      lisa_cluster |-> lisa_cluster(moran[d].q, moran[d].p_sim, lang)]]]

\* compute_lisa_for_year(_gdf, _w, df, year) when it is executed: moran is the
\* outcome of Moran_Local, lang the session language
compute_lisa_for_year(rows, year, moran, lang) ==
    LET g == gdf_year_cases(rows, year)
    IN  IF SumKeys(g, GeoDistricts, "cases") = 0 THEN [k |-> "None"]
        ELSE [k |-> "frame",
              rows |-> [d \in GeoDistricts |->
                          [cases |-> g[d].cases,
                           lisa_quadrant |-> moran[d].q,
                           lisa_pvalue |-> moran[d].p_sim,
                           lisa_cluster |->
                               lisa_cluster(moran[d].q, moran[d].p_sim, lang)]]]

\* variant without memoization: every year with cases runs Moran_Local again
YearsToCompute_mut(rows, years, cache) ==
    { y \in years : SumKeys(gdf_year_cases(rows, y), GeoDistricts, "cases") # 0 }

\* main(): the hotspot and coldspot counts of a frame, the districts whose label
\* equals the High-High and the Low-Low text of the language of the run
count_clusters(frame, lang) ==
    [n_hh |-> Cardinality({ d \in GeoDistricts :
                frame.rows[d].lisa_cluster = get_text("high_high", lang) }),
     n_ll |-> Cardinality({ d \in GeoDistricts :
                frame.rows[d].lisa_cluster = get_text("low_low", lang) })]

\* the years whose call runs Moran_Local: not memoized and with cases
YearsToCompute(rows, years, cache) ==
    { y \in years :
        /\ <<rows, y>> \notin DOMAIN cache
        /\ SumKeys(gdf_year_cases(rows, y), GeoDistricts, "cases") # 0 }

\* the visualization section was not reached
NoView == [k |-> "none", year |-> 0, n_years |-> 0, n_cols |-> 0, n_rows |-> 0,
           error |-> "none"]

\* the section as it runs on the years that have a result: the single-year map
\* looks up lisa_results[selected_years[0]], the grid lays out len(lisa_results)
\* maps in min(3, n_years) columns and ceil(n_years / n_cols) rows
draw_maps(mode, years, found) ==
    IF mode = "Single Year"
    THEN LET year == CHOOSE y \in years : TRUE
         IN  [NoView EXCEPT !.k = "single", !.year = year,
                            !.n_years = Cardinality(found),
                            !.error = IF year \in found THEN "none" ELSE "KeyError"]
    ELSE LET n_years == Cardinality(found)
             n_cols == IF n_years < 3 THEN n_years ELSE 3
         IN  IF n_cols = 0
             THEN [NoView EXCEPT !.k = "grid", !.error = "ZeroDivisionError"]
             ELSE [NoView EXCEPT !.k = "grid", !.n_years = n_years, !.n_cols = n_cols,
                                 !.n_rows = (n_years + n_cols - 1) \div n_cols]

\* variant without the test of len(lisa_results) == 0
visualization_mut(mode, years, found) ==
    IF years = {} THEN NoView ELSE draw_maps(mode, years, found)

\* main() from the emptiness test on: st.stop() when no year has a result
visualization(mode, years, found) ==
    IF found = {} THEN NoView ELSE draw_maps(mode, years, found)

LisaIdle ==
    /\ analysis_mode = "none"
    /\ significance_level = 50
    /\ lisa_cache = <<>>
    /\ lisa_results = <<>>
    /\ cluster_counts = <<>>
    /\ lisa_view = NoView

\* main(): the sidebar, the loop over the selected years and the emptiness test
LisaMain ==
    /\ \E mode \in AnalysisModes, alpha \in SignificanceLevels,
          years \in SUBSET Unique(df, "data_year") :
        /\ mode = "Single Year" => Cardinality(years) = 1
        /\ mode = "All Years Grid" => years = Unique(df, "data_year")
        /\ \E moran \in [YearsToCompute(df, years, lisa_cache) -> MoranOutcomes] :
            LET result(y) ==
                    IF y \in DOMAIN moran
                    THEN compute_lisa_for_year(df, y, moran[y], language)
                    ELSE IF <<df, y>> \in DOMAIN lisa_cache THEN lisa_cache[<<df, y>>]
                    ELSE compute_lisa_for_year(df, y, CHOOSE m \in MoranOutcomes : TRUE,
                                               language)
                called == { <<df, y>> : y \in years }
                found == { y \in years : result(y).k # "None" }
            IN  /\ page' = "lisa"
                /\ analysis_mode' = mode
                /\ selected_years' = years
                /\ significance_level' = alpha
                /\ lisa_cache' =
                      [key \in DOMAIN lisa_cache \cup called |->
                          IF key \in DOMAIN lisa_cache THEN lisa_cache[key]
                          ELSE result(key[2])]
                /\ lisa_results' = [y \in found |-> result(y)]
                /\ cluster_counts' = [y \in found |-> count_clusters(result(y), language)]
                /\ lisa_view' = visualization(mode, years, found)
                /\ stopped' = (found = {})
                /\ map_sections' = IF found = {} THEN {} ELSE {"lisa_maps", "cluster_summary"}
    /\ df # <<>>
    /\ load_geojson(geojson) # "None"
    /\ UNCHANGED <<df, selected_regions, week_range, kpis, yearly_data, regional_data,
                   district_data, otherVars>>

\* main() on an empty table: st.error and st.stop() before the sidebar
LisaMainNoData ==
    /\ df = <<>>
    /\ page' = "lisa"
    /\ stopped' = TRUE
    /\ map_sections' = {}
    /\ UNCHANGED <<df, selected_years, selected_regions, week_range, kpis, yearly_data,
                   regional_data, district_data, lisaVars, otherVars>>

\* main() without the libraries or without the boundaries: st.error and st.stop()
\* before the spatial weights
LisaMainNoGeo ==
    /\ df # <<>>
    /\ load_geojson(geojson) = "None"
    /\ page' = "lisa"
    /\ stopped' = TRUE
    /\ map_sections' = {}
    /\ UNCHANGED <<df, selected_years, selected_regions, week_range, kpis, yearly_data,
                   regional_data, district_data, lisaVars, otherVars>>

-----------------------------------------------------------------------------
(* dashboard_app.py: loading the surveillance CSV *)

\* the candidate paths, in the order load_main_dataset tries them
CandidatePaths == <<"Dashboard/cleaned_data", "cleaned_data">>

CsvTables ==
    { <<>>,
      <<LisaRow(2023, "Garoua", 2)>>,
      <<LisaRow(2023, "Garoua", 0), LisaRow(2024, "Mfou", 2)>> }

\* a path holds no file, a file pd.read_csv or the column casts reject, or a table
CsvFiles ==
    { [status |-> "missing", rows |-> <<>>], [status |-> "unreadable", rows |-> <<>>] }
    \cup { [status |-> "ok", rows |-> t] : t \in CsvTables }

NoEntry == [k |-> "none"]

\* variant whose second attempt has no handler: the exception leaves the function
load_main_dataset_mut(files) ==
    IF files[1].status = "ok" THEN [k |-> "frame", df |-> files[1].rows, error |-> FALSE]
    ELSE IF files[2].status = "ok"
         THEN [k |-> "frame", df |-> files[2].rows, error |-> FALSE]
         ELSE [k |-> "raise", df |-> <<>>, error |-> FALSE]

\* load_main_dataset(): the first readable path, else st.error and an empty frame
load_main_dataset(files) ==
    IF files[1].status = "ok" THEN [k |-> "frame", df |-> files[1].rows, error |-> FALSE]
    ELSE IF files[2].status = "ok"
         THEN [k |-> "frame", df |-> files[2].rows, error |-> FALSE]
         ELSE [k |-> "frame", df |-> <<>>, error |-> TRUE]

\* main(): the key metrics of the quick overview
dashboard_kpis(t) ==
    LET total_cases == SumCol(t, "cases")
        total_deaths == SumCol(t, "deaths")
    IN  [total_cases |-> total_cases, total_deaths |-> total_deaths,
         overall_cfr |-> cfr_guarded(total_deaths, total_cases)]

LoadIdle ==
    /\ csv_files = [i \in 1..2 |-> [status |-> "ok", rows |-> <<>>]]
    /\ dataset_cache = NoEntry
    /\ messages = {}

\* main(): load the table (memoized for an hour, the elements of the loader are
\* replayed on a hit), stop on an empty table, else show the quick overview
DashboardMain ==
    /\ LET loaded == IF dataset_cache # NoEntry THEN dataset_cache
                     ELSE load_main_dataset(csv_files)
       IN  /\ page' = "dashboard"
           /\ IF loaded.k = "raise"
              THEN /\ UNCHANGED <<df, dataset_cache>>
                   /\ messages' = {"exception"}
                   /\ stopped' = FALSE
                   /\ kpis' = NoKpis
              ELSE /\ dataset_cache' = loaded
                   /\ df' = loaded.df
                   /\ stopped' = (loaded.df = <<>>)
                   /\ messages' =
                         (IF loaded.error THEN {"error_loading_data"} ELSE {})
                         \cup (IF loaded.df = <<>> THEN {"failed_load_data"}
                               ELSE {"data_loaded"})
                   /\ kpis' = IF loaded.df = <<>> THEN NoKpis
                              ELSE dashboard_kpis(loaded.df)
    /\ UNCHANGED <<selected_years, selected_regions, week_range, yearly_data,
                   regional_data, district_data, riskVars, fcVars, lisaVars, csv_files,
                   predVars, geoVars, explorer,
                   temporal>>

\* the hour of the memoized table is over
DatasetCacheExpires ==
    /\ dataset_cache # NoEntry
    /\ dataset_cache' = NoEntry
    /\ UNCHANGED <<aggVars, riskVars, fcVars, lisaVars, csv_files, messages, predVars,
                   geoVars, explorer,
                   temporal>>

\* the files of the deployment change between two renders
CsvFilesChange ==
    /\ \E i \in 1..2, f \in CsvFiles :
        /\ f # csv_files[i]
        /\ csv_files' = [csv_files EXCEPT ![i] = f]
    /\ UNCHANGED <<aggVars, riskVars, fcVars, lisaVars, dataset_cache, messages,
                   predVars, geoVars, explorer,
                   temporal>>

-----------------------------------------------------------------------------
(* pages/4_Predictions.py and pages/4_Predictions_BILINGUAL.py: the page *)

\* what open() and pickle.load find at the model path
PklStates == {"missing", "format_mismatch", "library_error", "ok"}
\* joblib and xgboost: not installed, installed and failing on the file, loading it
LibStates == {"not_installed", "fails", "loads"}

\* the environment of one load_ml_model call; joblib cannot load a missing file
MlEnvs ==
    { e \in [pickle_available : BOOLEAN, pkl : PklStates, joblib : LibStates,
             xgboost : LibStates] :
        /\ ~e.pickle_available =>
              e.pkl = "missing" /\ e.joblib = "not_installed" /\ e.xgboost = "not_installed"
        /\ e.pkl = "ok" => e.joblib = "not_installed" /\ e.xgboost = "not_installed"
        /\ e.pkl = "missing" => e.joblib # "loads" }

NoModelFiles ==
    [pickle_available |-> TRUE, pkl |-> "missing", joblib |-> "not_installed",
     xgboost |-> "not_installed"]

ScalerStates == {"missing", "unreadable", "ok"}

\* st.warning(f"Could not load {model_type} model. Using statistical predictions.")
could_not_load(model_type) ==
    IF model_type = "regression" THEN "warning: could not load regression model"
    ELSE "warning: could not load classification model"

\* variant whose last fallback has no handler: the exception leaves the loader
load_ml_model_mut(model_type, e) ==
    IF ~e.pickle_available THEN [model |-> "None", messages |-> {}]
    ELSE IF e.pkl = "ok" THEN [model |-> "pickle", messages |-> {}]
    ELSE IF e.joblib = "loads" THEN [model |-> "joblib", messages |-> {}]
    ELSE IF e.xgboost = "loads" THEN [model |-> "xgboost", messages |-> {}]
    ELSE [model |-> "raise", messages |-> {}]

\* load_ml_model(model_type): pickle, then joblib, then the xgboost loader; every
\* exception of the first attempt, FileNotFoundError included, enters the fallbacks
load_ml_model(model_type, e) ==
    IF ~e.pickle_available THEN [model |-> "None", messages |-> {}]
    ELSE IF e.pkl = "ok" THEN [model |-> "pickle", messages |-> {}]
    ELSE IF e.joblib = "loads" THEN [model |-> "joblib", messages |-> {}]
    ELSE IF e.xgboost = "loads" THEN [model |-> "xgboost", messages |-> {}]
    ELSE [model |-> "None", messages |-> {could_not_load(model_type)}]

\* load_feature_scaler()
load_feature_scaler(pickle_available, status) ==
    IF ~pickle_available THEN [model |-> "None", messages |-> {}]
    ELSE IF status = "ok" THEN [model |-> "scaler", messages |-> {}]
    ELSE IF status = "missing"
    THEN [model |-> "None", messages |-> {"warning: feature scaler not found"}]
    ELSE [model |-> "None", messages |-> {"warning: could not load scaler"}]

\* the deployment: both model files, the scaler file, the installed libraries
Deployments ==
    { d \in [regression : MlEnvs, classification : MlEnvs, scaler : ScalerStates] :
        /\ d.regression.pickle_available = d.classification.pickle_available
        /\ (d.regression.joblib = "not_installed") = (d.classification.joblib = "not_installed")
        /\ (d.regression.xgboost = "not_installed")
              = (d.classification.xgboost = "not_installed")
        /\ d.classification.pkl \in {"missing", "ok"} }

NoDeployment ==
    [regression |-> NoModelFiles, classification |-> NoModelFiles, scaler |-> "missing"]

\* st.cache_resource before the first call
NotLoaded == [k |-> "not_loaded"]

RECURSIVE UniqueSeq(_)
\* Series.unique(): the values in order of first appearance
UniqueSeq(s) ==
    IF s = <<>> THEN <<>>
    ELSE LET r == UniqueSeq(SubSeq(s, 1, Len(s) - 1))
         IN  IF \E i \in DOMAIN r : r[i] = s[Len(s)] THEN r ELSE Append(r, s[Len(s)])

\* df[df['region'].isin(selected_regions)]['district_clean'].unique()
districts_to_predict(t, regions) ==
    LET rows == SelectSeq(t, LAMBDA r : r.region \in regions)
    IN  UniqueSeq([i \in DOMAIN rows |-> rows[i].district_clean])

\* the cases column of a frame
cases_column(rows) == [i \in DOMAIN rows |-> rows[i].cases]

\* round(x, 1) of a non-negative forecast, half to even; a forecast that is not a
\* plain number stays as it is
round1(x) ==
    IF x.k # "num" \/ x.tn # x.td THEN x
    ELSE LET q == (x.n * 10) \div x.d
             r == (x.n * 10) % x.d
         IN  IF 2 * r > x.d \/ (2 * r = x.d /\ q % 2 = 1) THEN Num(q + 1, 10)
             ELSE Num(q, 10)

\* variant of the loop that leaves at the first district without a forecast
prediction_rows_mut(t, regions, weeks_ahead) ==
    LET ds == districts_to_predict(t, regions)
        undefined == { i \in DOMAIN ds :
                         make_simple_prediction(t, ds[i], weeks_ahead).k = "None" }
        upto == IF undefined = {} THEN Len(ds)
                ELSE (CHOOSE i \in undefined : \A j \in undefined : i <= j) - 1
    IN  [i \in 1..upto |->
            LET d == ds[i]
                pc == make_simple_prediction(t, d, weeks_ahead)
                dd == district_rows(t, d)
            IN  [District |-> d, Region |-> dd[1].region, Predicted |-> round1(pc),
                 Risk |-> classify_risk_level(pc, cases_column(dd)),
                 defined |-> TRUE]]

\* variant of the loop that asks the regression model for the forecast when the
\* deployment has one that loads
prediction_rows_mutml(t, regions, weeks_ahead) ==
    LET ds == districts_to_predict(t, regions)
        model == load_ml_model("regression", ml_env.regression).model
        row(d) ==
            LET pc == IF model \in {"None", "raise"}
                      THEN make_simple_prediction(t, d, weeks_ahead)
                      ELSE Forecast(0, 1, 1, 1, 100)
                dd == district_rows(t, d)
            IN  [District |-> d,
                 Region |-> IF dd = <<>> THEN "none" ELSE dd[1].region,
                 Predicted |-> round1(pc),
                 Risk |-> IF pc.k = "None" THEN "none"
                          ELSE classify_risk_level(pc, cases_column(dd)),
                 defined |-> pc.k # "None"]
    IN  SelectSeq([i \in DOMAIN ds |-> row(ds[i])], LAMBDA r : r.defined)

\* the prediction loop of pages/4_Predictions.py: one row per district whose
\* forecast is not None, in the order of districts_to_predict
prediction_rows(t, regions, weeks_ahead) ==
    LET ds == districts_to_predict(t, regions)
        row(d) ==
            LET pc == make_simple_prediction(t, d, weeks_ahead)
                dd == district_rows(t, d)
            IN  [District |-> d,
                 Region |-> IF dd = <<>> THEN "none" ELSE dd[1].region,
                 Predicted |-> round1(pc),
                 Risk |-> IF pc.k = "None" THEN "none"
                          ELSE classify_risk_level(pc, cases_column(dd)),
                 defined |-> pc.k # "None"]
    IN  SelectSeq([i \in DOMAIN ds |-> row(ds[i])], LAMBDA r : r.defined)

\* the prediction loop of pages/4_Predictions_BILINGUAL.py
prediction_rows_bilingual(t, regions, weeks_ahead) ==
    LET ds == districts_to_predict(t, regions)
        row(d) ==
            LET pc == make_simple_prediction_bilingual(t, d, weeks_ahead)
                dd == district_rows(t, d)
            IN  [District |-> d,
                 Region |-> IF dd = <<>> THEN "none" ELSE dd[1].region,
                 Predicted |-> round1(pc),
                 Risk |-> IF pc.k = "None" THEN "none"
                          ELSE classify_risk_level_bilingual(pc,
                                                             cases_column(dd)),
                 defined |-> pc.k # "None"]
    IN  SelectSeq([i \in DOMAIN ds |-> row(ds[i])], LAMBDA r : r.defined)

RECURSIVE InsertPrediction(_, _)
\* r placed after every row whose Predicted is not smaller
InsertPrediction(r, rows) ==
    IF rows = <<>> THEN <<r>>
    ELSE IF FGt(r.Predicted, Head(rows).Predicted) THEN <<r>> \o rows
    ELSE <<Head(rows)>> \o InsertPrediction(r, Tail(rows))

RECURSIVE sort_predictions(_)
\* predictions_df.sort_values('Predicted Cases', ascending=False); rows with equal
\* values keep their order
sort_predictions(rows) ==
    IF rows = <<>> THEN <<>>
    ELSE InsertPrediction(rows[Len(rows)], sort_predictions(SubSeq(rows, 1, Len(rows) - 1)))

PredIdle ==
    /\ ml_env = NoDeployment
    /\ ml_models = NotLoaded
    /\ horizon = 4
    /\ predictions = <<>>

\* values of the weeks_ahead slider
BatchHorizons == {1, 4}

\* pages/4_Predictions.py: main(), one script run
PredictionsMain ==
    LET loaded ==
            IF ml_models # NotLoaded THEN ml_models
            ELSE [k |-> "loaded",
                  regression |-> load_ml_model("regression", ml_env.regression),
                  classification |-> load_ml_model("classification", ml_env.classification),
                  scaler |-> load_feature_scaler(ml_env.regression.pickle_available,
                                                 ml_env.scaler)]
        raised == \/ loaded.regression.model = "raise"
                  \/ loaded.classification.model = "raise"
        import_messages ==
            IF ml_env.regression.pickle_available THEN {}
            ELSE {"warning: pickle not available"}
        loader_messages ==
            import_messages \cup loaded.regression.messages
                \cup loaded.classification.messages \cup loaded.scaler.messages
    IN  /\ page' = "predictions"
        /\ IF raised
           THEN /\ messages' = {"exception"}
                /\ stopped' = FALSE
                /\ predictions' = <<>>
                /\ UNCHANGED <<ml_models, selected_regions, horizon>>
           ELSE /\ ml_models' = loaded
                /\ IF df = <<>>
                   THEN /\ messages' = loader_messages \cup {"error: failed to load data"}
                        /\ stopped' = TRUE
                        /\ predictions' = <<>>
                        /\ UNCHANGED <<selected_regions, horizon>>
                   ELSE \E regions \in SUBSET Unique(df, "region"), w \in BatchHorizons :
                        LET model_message ==
                                IF loaded.regression.model = "None"
                                THEN "info: statistical mode"
                                ELSE "success: model loaded"
                            rows == prediction_rows(df, regions, w)
                        IN  /\ selected_regions' = regions
                            /\ horizon' = w
                            /\ predictions' =
                                  IF regions = {} THEN <<>> ELSE sort_predictions(rows)
                            /\ stopped' = (regions = {} \/ rows = <<>>)
                            /\ messages' =
                                  loader_messages \cup {model_message}
                                  \cup (IF regions = {}
                                        THEN {"warning: select at least one region"}
                                        ELSE IF rows = <<>>
                                        THEN {"warning: no predictions available"}
                                        ELSE {})
        /\ UNCHANGED <<df, selected_years, week_range, kpis, yearly_data, regional_data,
                       district_data, riskVars, fcVars, lisaVars, csv_files, dataset_cache,
                       ml_env, geoVars, explorer,
                   temporal>>

\* pages/4_Predictions_BILINGUAL.py: main(), one script run
PredictionsBilingualMain ==
    /\ page' = "predictions_bilingual"
    /\ IF df = <<>>
       THEN /\ messages' = {"error: failed to load data"}
            /\ stopped' = TRUE
            /\ predictions' = <<>>
            /\ UNCHANGED <<selected_regions, horizon>>
       ELSE \E regions \in SUBSET Unique(df, "region"), w \in BatchHorizons :
            LET rows == prediction_rows_bilingual(df, regions, w)
            IN  /\ selected_regions' = regions
                /\ horizon' = w
                /\ predictions' = IF regions = {} THEN <<>> ELSE rows
                /\ stopped' = (regions = {} \/ rows = <<>>)
                /\ messages' =
                      {"info: statistical mode"}
                      \cup (IF regions = {} THEN {"warning: select at least one region"}
                            ELSE IF rows = <<>>
                            THEN {"warning: no predictions available"}
                            ELSE {})
    /\ UNCHANGED <<df, selected_years, week_range, kpis, yearly_data, regional_data,
                   district_data, riskVars, fcVars, lisaVars, csv_files, dataset_cache,
                   ml_env, ml_models, geoVars, explorer,
                   temporal>>

\* histories of one district in the table: none, too short for both pages, enough
\* for pages/4_Predictions.py only, enough for both
BatchHistories == { <<>>, Rep(5, 3), Rep(5, 4), Rep(0, 8) \o Rep(50, 4) }

\* the orders in which the districts appear in the table
DistrictOrders ==
    { o \in [1..3 -> DistrictNames] : \A i, j \in 1..3 : i # j => o[i] # o[j] }

BatchTables ==
    { HistoryRows(o[1], h[o[1]]) \o HistoryRows(o[2], h[o[2]]) \o HistoryRows(o[3], h[o[3]]) :
        o \in DistrictOrders, h \in [DistrictNames -> BatchHistories] }

-----------------------------------------------------------------------------
(* pages/5_Data_Explorer_BILINGUAL.py: table display and CSV export *)

ExplorerLen == 102

slider_min == 100
slider_cap == 10000
slider_default == 1000

StrColumns == {"region", "district_clean"}
IntColumns == {"data_year", "week_number", "cases", "deaths"}
FloatColumns == {"population"}
all_columns == StrColumns \cup IntColumns \cup FloatColumns

\* row i of the surveillance table: population is missing in some rows
ExplorerRow(i, lowest_cases) ==
    [region |-> IF i < ExplorerLen THEN "Nord" ELSE "Centre",
     district_clean |-> IF i < ExplorerLen THEN "Garoua" ELSE "Mfou",
     data_year |-> IF i % 4 = 0 THEN 2024 ELSE 2023,
     week_number |-> ((i - 1) % 53) + 1,
     cases |-> lowest_cases + (i % 3), deaths |-> 0,
     population |-> IF i % 5 = 0 THEN NaN ELSE Num(1000 + i, 1)]

\* tables of the Data Explorer: no rows, a few rows, and more rows than the
\* smallest display limit, with and without weeks of zero cases
ExplorerTables ==
    { <<>>, [i \in 1..2 |-> ExplorerRow(i, 0)] }
    \cup { [i \in 1..ExplorerLen |-> ExplorerRow(i, c)] : c \in {0, 1} }

\* variant that applies the region filter to an empty selection too
explorer_filter_mut(t, years, weeks, regions, districts, cases_filter, cases_range) ==
    LET by_year == IF years # {} THEN SelectSeq(t, LAMBDA r : r.data_year \in years) ELSE t
        by_week == SelectSeq(by_year, LAMBDA r : /\ r.week_number >= weeks[1]
                                                  /\ r.week_number <= weeks[2])
        by_region == SelectSeq(by_week, LAMBDA r : r.region \in regions)
        by_district == IF districts # {}
                       THEN SelectSeq(by_region, LAMBDA r : r.district_clean \in districts)
                       ELSE by_region
    IN  IF cases_filter = "positive" THEN SelectSeq(by_district, LAMBDA r : r.cases > 0)
        ELSE IF cases_filter = "custom"
        THEN SelectSeq(by_district, LAMBDA r : /\ r.cases >= cases_range[1]
                                                /\ r.cases <= cases_range[2])
        ELSE by_district

\* the filters of the sidebar, applied in the order of main(); an empty year,
\* region or district selection filters nothing. districts is empty when the
\* district checkbox is off
explorer_filter(t, years, weeks, regions, districts, cases_filter, cases_range) ==
    LET by_year == IF years # {} THEN SelectSeq(t, LAMBDA r : r.data_year \in years) ELSE t
        by_week == SelectSeq(by_year, LAMBDA r : /\ r.week_number >= weeks[1]
                                                  /\ r.week_number <= weeks[2])
        by_region == IF regions # {}
                     THEN SelectSeq(by_week, LAMBDA r : r.region \in regions)
                     ELSE by_week
        by_district == IF districts # {}
                       THEN SelectSeq(by_region, LAMBDA r : r.district_clean \in districts)
                       ELSE by_region
    IN  IF cases_filter = "positive" THEN SelectSeq(by_district, LAMBDA r : r.cases > 0)
        ELSE IF cases_filter = "custom"
        THEN SelectSeq(by_district, LAMBDA r : /\ r.cases >= cases_range[1]
                                                /\ r.cases <= cases_range[2])
        ELSE by_district

\* the characters of a decimal number
Digits == <<"0", "1", "2", "3", "4", "5", "6", "7", "8", "9">>

RECURSIVE format_int(_)
\* str(n) of a non-negative integer, one character per element
format_int(n) == IF n < 10 THEN <<Digits[n + 1]>> ELSE Append(format_int(n \div 10), Digits[(n % 10) + 1])

\* the text to_csv writes for one cell; a name is one token, a missing value is
\* the empty field, a float with an integral value is written with ".0"
to_csv_cell(col, x) ==
    IF col \in StrColumns THEN <<x>>
    ELSE IF col \in IntColumns THEN format_int(x)
    ELSE IF x.k = "nan" THEN <<>>
    ELSE format_int(x.n \div x.d) \o <<".", "0">>

\* variant of the export that writes the frame of the display
export_frame_mut(df_filtered, df_display) == df_display

\* the frame the download button exports: df_filtered[selected_columns]
export_frame(df_filtered, df_display) == df_filtered

\* DataFrame[columns].to_csv(index=False): a header and one line per row
to_csv(rows, columns) ==
    [header |-> columns,
     lines |-> [i \in DOMAIN rows |-> [c \in columns |-> to_csv_cell(c, rows[i][c])]]]

\* strings read_csv turns into a missing value
NaTokens == {"", "#N/A", "N/A", "NA", "NULL", "NaN", "None", "n/a", "nan", "null", "<NA>"}

IsDigit(ch) == \E i \in DOMAIN Digits : Digits[i] = ch

IsIntText(f) == f # <<>> /\ \A i \in DOMAIN f : IsDigit(f[i])

\* digits, a point, digits
IsFloatText(f) ==
    \E p \in DOMAIN f :
        /\ f[p] = "."
        /\ IsIntText(SubSeq(f, 1, p - 1))
        /\ IsIntText(SubSeq(f, p + 1, Len(f)))

RECURSIVE int_of(_)
int_of(f) ==
    IF f = <<>> THEN 0
    ELSE 10 * int_of(SubSeq(f, 1, Len(f) - 1))
         + (CHOOSE d \in 0..9 : Digits[d + 1] = f[Len(f)])

RECURSIVE pow10(_)
pow10(n) == IF n = 0 THEN 1 ELSE 10 * pow10(n - 1)

\* the value of one field before the column type is known
parse_field(f) ==
    IF f = <<>> \/ (Len(f) = 1 /\ f[1] \in NaTokens) THEN [t |-> "nan"]
    ELSE IF IsIntText(f) THEN [t |-> "int", n |-> int_of(f), d |-> 1]
    ELSE IF IsFloatText(f)
    THEN LET p == CHOOSE q \in DOMAIN f : f[q] = "."
             frac == SubSeq(f, p + 1, Len(f))
         IN  [t |-> "float",
              n |-> int_of(SubSeq(f, 1, p - 1)) * pow10(Len(frac)) + int_of(frac),
              d |-> pow10(Len(frac))]
    ELSE [t |-> "str", v |-> f]

\* read_csv: every column gets one type. All fields integers: int64; numbers and
\* missing values: float64; anything else: object, where the fields that are not
\* missing stay text
read_csv(csv) ==
    LET parsed == [i \in DOMAIN csv.lines |->
                        [c \in csv.header |-> parse_field(csv.lines[i][c])]]
        dtype == [c \in csv.header |->
                    IF \A i \in DOMAIN parsed : parsed[i][c].t = "int" THEN "int64"
                    ELSE IF \A i \in DOMAIN parsed : parsed[i][c].t \in {"int", "float", "nan"}
                    THEN "float64"
                    ELSE "object"]
        cell(i, c) ==
            IF dtype[c] = "int64" THEN parsed[i][c]
            ELSE IF parsed[i][c].t = "nan" THEN [t |-> "nan"]
            ELSE IF dtype[c] = "float64"
            THEN [t |-> "float", n |-> parsed[i][c].n, d |-> parsed[i][c].d]
            ELSE [t |-> "str", v |-> csv.lines[i][c]]
    IN  [columns |-> csv.header,
         rows |-> [i \in DOMAIN csv.lines |-> [c \in csv.header |-> cell(i, c)]]]

\* column selections of the multiselect: none, the default, single columns
ColumnChoices ==
    { {}, all_columns, {"region"}, {"population"}, {"cases", "deaths"} }

CasesFilters == {"all", "positive", "custom"}

\* values of the two number inputs of the custom range: the defaults, one count,
\* and a minimum above the maximum
CasesRanges == {<<0, 1000>>, <<1, 1>>, <<2, 0>>}

\* the district multiselect: drawn when the checkbox is ticked, over the districts
\* of the selected regions
DistrictChoices(t, show, regions) ==
    IF show
    THEN SUBSET Unique(SelectSeq(t, LAMBDA r : r.region \in regions), "district_clean")
    ELSE {{}}

ExplorerIdle == explorer = NoExplorer

min2(a, b) == IF a < b THEN a ELSE b

\* main(): filters, summary, column selector, row limit, table and export
DataExplorerMain ==
    /\ page = "none"
    /\ page' = "data_explorer"
    /\ IF df = <<>>
       THEN /\ stopped' = TRUE
            /\ messages' = {"error: failed to load data"}
            /\ explorer' = NoExplorer
            /\ UNCHANGED <<selected_years, selected_regions, week_range>>
       ELSE \E years \in SUBSET Unique(df, "data_year"), weeks \in {<<1, 53>>, <<1, 26>>},
               regions \in SUBSET Unique(df, "region"), show \in BOOLEAN,
               cases_filter \in CasesFilters, cases_range \in CasesRanges,
               selected_columns \in ColumnChoices :
            \E districts \in DistrictChoices(df, show, regions) :
            LET df_filtered == explorer_filter(df, years, weeks, regions, districts,
                                               cases_filter, cases_range)
                inputs == [NoExplorer EXCEPT
                              !.show_district_filter = show,
                              !.selected_districts = districts,
                              !.cases_filter = cases_filter,
                              !.cases_min = IF cases_filter = "custom"
                                            THEN cases_range[1] ELSE 0,
                              !.cases_max = IF cases_filter = "custom"
                                            THEN cases_range[2] ELSE 1000,
                              !.selected_columns = selected_columns,
                              !.records = Len(df_filtered),
                              !.df_filtered = df_filtered]
                max_value == min2(slider_cap, Len(df_filtered))
                value == min2(slider_default, Len(df_filtered))
                shown(max_rows) ==
                    [inputs EXCEPT
                        !.max_rows = max_rows,
                        !.df_display = head(df_filtered, max_rows),
                        !.exported = TRUE,
                        !.csv_data = to_csv(export_frame(df_filtered,
                                                         head(df_filtered, max_rows)),
                                            selected_columns)]
                halted == inputs
            IN  /\ selected_years' = years
                /\ selected_regions' = regions
                /\ week_range' = weeks
                /\ IF selected_columns = {}
                   THEN /\ stopped' = TRUE
                        /\ messages' = {"warning: please select"}
                        /\ explorer' = halted
                   ELSE \/ \* st.slider given a max_value below its min_value: the
                           \* Streamlit release decides between an exception and
                           \* a slider fixed at value
                           /\ max_value < slider_min
                           /\ stopped' = FALSE
                           /\ messages' = {"exception"}
                           /\ explorer' = halted
                        \/ \E max_rows \in IF max_value < slider_min THEN {value}
                                           ELSE {slider_min, value} :
                           /\ stopped' = FALSE
                           /\ messages' = IF Len(df_filtered) > max_rows
                                          THEN {"info: displaying part of the records"}
                                          ELSE {}
                           /\ explorer' = shown(max_rows)
    /\ UNCHANGED <<df, kpis, yearly_data, regional_data, district_data, riskVars, fcVars,
                   lisaVars, csv_files, dataset_cache, predVars, geoVars, temporal>>

-----------------------------------------------------------------------------
(* pages/3_Temporal_Analysis_BILINGUAL.py *)

\* df.groupby(['data_year', 'week_number'])['cases'].sum(): one total for every
\* (year, week) that has a row
weekly_totals(rows) ==
    [p \in { <<rows[i].data_year, rows[i].week_number>> : i \in DOMAIN rows } |->
        period_cases(rows, p[1], p[2])]

RECURSIVE ValuesOf(_, _)
\* the values of a grouped series over the keys ks
ValuesOf(f, ks) ==
    IF ks = {} THEN <<>>
    ELSE LET a == CHOOSE a \in ks : TRUE
         IN  <<f[a]>> \o ValuesOf(f, ks \ {a})

get_yearly_trends(t, years, regions) ==
    weekly_totals(filter_years_regions(t, years, regions))

\* variant that flags the weeks at the threshold too
identify_epidemic_weeks_mut(t, years, regions, threshold_percentile) ==
    LET weekly_cases == weekly_totals(filter_years_regions(t, years, regions))
        threshold == quantile(ValuesOf(weekly_cases, DOMAIN weekly_cases),
                              threshold_percentile)
    IN  [epidemic_weeks |->
            { p \in DOMAIN weekly_cases :
                \/ FGt(Num(weekly_cases[p], 1), threshold)
                \/ FEq(Num(weekly_cases[p], 1), threshold) },
         threshold |-> threshold]

identify_epidemic_weeks(t, years, regions, threshold_percentile) ==
    LET weekly_cases == weekly_totals(filter_years_regions(t, years, regions))
        threshold == quantile(ValuesOf(weekly_cases, DOMAIN weekly_cases),
                              threshold_percentile)
    IN  [epidemic_weeks |->
            { p \in DOMAIN weekly_cases : FGt(Num(weekly_cases[p], 1), threshold) },
         threshold |-> threshold]

RECURSIVE SumValues(_, _)
SumValues(f, ks) ==
    IF ks = {} THEN 0
    ELSE LET a == CHOOSE a \in ks : TRUE
         IN  f[a] + SumValues(f, ks \ {a})

\* yearly_weekly[yearly_weekly['data_year'] == year]['cases'].sum()
year_total(yearly_weekly, year) ==
    SumValues(yearly_weekly, { p \in DOMAIN yearly_weekly : p[1] = year })

\* the Recent Trend insight of main(), drawn when more than one year is selected
recent_trend(yearly_weekly, years) ==
    LET recent_year == MaxOf(years)
        prev_year == MaxOf(years \ {recent_year})
    IN  [compared |-> <<recent_year, prev_year>>,
         change |-> yoy_change(year_total(yearly_weekly, recent_year),
                               year_total(yearly_weekly, prev_year))]

TemporalIdle == temporal = NoTemporal

\* main(): filters, seasonal pattern, epidemic timeline, statistics and insights
TemporalBilingualMain ==
    /\ page = "none"
    /\ IF df = <<>>
       THEN /\ Halt("temporal_bilingual")
            /\ temporal' = NoTemporal
            /\ UNCHANGED <<selected_years, selected_regions>>
       ELSE \E years \in SUBSET Unique(df, "data_year"),
               regions \in SUBSET Unique(df, "region") :
            /\ selected_years' = years
            /\ selected_regions' = regions
            /\ IF years = {} \/ regions = {}
               THEN Halt("temporal_bilingual") /\ temporal' = NoTemporal
               ELSE LET yearly_weekly == get_yearly_trends(df, years, regions)
                        found == identify_epidemic_weeks(df, years, regions, 90)
                        drawn == [NoTemporal EXCEPT
                                    !.yearly_weekly = yearly_weekly,
                                    !.epidemic_weeks = found.epidemic_weeks,
                                    !.threshold = found.threshold]
                        trend == recent_trend(yearly_weekly, years)
                    IN  /\ page' = "temporal_bilingual"
                        /\ stopped' = FALSE
                        /\ UNCHANGED <<kpis, yearly_data, regional_data, district_data>>
                        /\ temporal' =
                            IF filter_years_regions(df, years, regions) = <<>>
                            THEN \* idxmax() of the empty seasonal pattern raises
                                 [drawn EXCEPT !.error = "ValueError"]
                            ELSE IF Cardinality(years) > 1
                            THEN [drawn EXCEPT !.compared = trend.compared,
                                               !.change = trend.change]
                            ELSE drawn
    /\ UNCHANGED <<df, week_range, riskVars, fcVars, lisaVars, loadVars, predVars,
                   geoVars, explorer>>

Init ==
    /\ df \in Tables
    /\ AggIdle
    /\ RiskIdle
    /\ ForecastIdle
    /\ LisaIdle
    /\ GeoIdle
    /\ ExplorerIdle
    /\ TemporalIdle
    /\ PredIdle
    /\ LoadIdle

Next ==
    \/ CheckOverviewMain
    \/ CheckSpatialMain
    \/ SpatialBilingualMain
    \/ OverviewMain
    \/ MinimalDashboard
    \/ Rerun

Spec == Init /\ [][Next]_vars

RiskInit ==
    /\ df = <<>>
    /\ AggIdle
    /\ cases_series \in RefSeries
    /\ predicted_cases = NoValue
    /\ risk_level = "none"
    /\ risk_page = "none"
    /\ top_districts = <<>>
    /\ ForecastIdle
    /\ LisaIdle
    /\ GeoIdle
    /\ ExplorerIdle
    /\ TemporalIdle
    /\ PredIdle
    /\ LoadIdle

RiskNext ==
    \/ PredictionsClassify
    \/ PredictionsBilingualClassify
    \/ HighRiskDistricts

SpecRisk == RiskInit /\ [][RiskNext]_vars

ForecastInit ==
    /\ \E h \in Histories, other \in OtherDistrictRows :
        /\ Len(h) <= MaxHist
        /\ df = HistoryRows("Garoua", h) \o other
    /\ AggIdle
    /\ RiskIdle
    /\ ForecastIdle
    /\ LisaIdle
    /\ GeoIdle
    /\ ExplorerIdle
    /\ TemporalIdle
    /\ PredIdle
    /\ LoadIdle

ForecastNext ==
    \/ MakeSimplePrediction
    \/ MakeSimplePredictionBilingual
    \/ ReloadDataset
    \/ SwitchLanguage
    \/ ChangeSelection

SpecForecast == ForecastInit /\ [][ForecastNext]_vars

LisaInit ==
    /\ df \in LisaTables
    /\ AggIdle
    /\ RiskIdle
    /\ ForecastIdle
    /\ LisaIdle
    /\ GeoIdle
    /\ ExplorerIdle
    /\ TemporalIdle
    /\ PredIdle
    /\ LoadIdle

LisaNext ==
    \/ LisaMain
    \/ LisaMainNoData
    \/ SwitchLanguage

SpecLisa == LisaInit /\ [][LisaNext]_vars

LoadInit ==
    /\ df = <<>>
    /\ AggIdle
    /\ RiskIdle
    /\ ForecastIdle
    /\ LisaIdle
    /\ GeoIdle
    /\ ExplorerIdle
    /\ TemporalIdle
    /\ PredIdle
    /\ csv_files \in [1..2 -> CsvFiles]
    /\ dataset_cache = NoEntry
    /\ messages = {}

LoadNext ==
    \/ DashboardMain
    \/ DatasetCacheExpires
    \/ CsvFilesChange

SpecLoad == LoadInit /\ [][LoadNext]_vars

\* tables of the model-loading runs: no rows, one district, two districts
ModelTables ==
    { <<>>, HistoryRows("Garoua", Rep(5, 4)),
      HistoryRows("Garoua", Rep(5, 3)) \o HistoryRows("Mfou", Rep(5, 12)) }

BatchInit ==
    /\ df \in BatchTables
    /\ AggIdle
    /\ RiskIdle
    /\ ForecastIdle
    /\ LisaIdle
    /\ GeoIdle
    /\ ExplorerIdle
    /\ TemporalIdle
    /\ LoadIdle
    /\ PredIdle

BatchNext ==
    \/ PredictionsMain
    \/ PredictionsBilingualMain

SpecBatch == BatchInit /\ [][BatchNext]_vars

ModelInit ==
    /\ df \in ModelTables
    /\ AggIdle
    /\ RiskIdle
    /\ ForecastIdle
    /\ LisaIdle
    /\ GeoIdle
    /\ ExplorerIdle
    /\ TemporalIdle
    /\ LoadIdle
    /\ ml_env \in Deployments
    /\ ml_models = NotLoaded
    /\ horizon = 4
    /\ predictions = <<>>

ModelNext == PredictionsMain

SpecModel == ModelInit /\ [][ModelNext]_vars

\* tables of the map pages: no rows, one district with a geometry
GeoTables == { <<>>, <<LisaRow(2023, "Garoua", 2)>> }

GeoInit ==
    /\ df \in GeoTables
    /\ AggIdle
    /\ RiskIdle
    /\ ForecastIdle
    /\ LisaIdle
    /\ LoadIdle
    /\ PredIdle
    /\ geojson \in GeoEnvs
    /\ map_sections = {}
    /\ ExplorerIdle
    /\ TemporalIdle

GeoNext ==
    \/ CheckSpatialMain
    \/ SpatialBilingualMain
    \/ LisaMain
    \/ LisaMainNoData
    \/ LisaMainNoGeo
    \/ Rerun

SpecGeo == GeoInit /\ [][GeoNext]_vars

ExportInit ==
    /\ df \in ExplorerTables
    /\ AggIdle
    /\ RiskIdle
    /\ ForecastIdle
    /\ LisaIdle
    /\ LoadIdle
    /\ PredIdle
    /\ GeoIdle
    /\ ExplorerIdle
    /\ TemporalIdle

ExportNext ==
    \/ DataExplorerMain
    \/ Rerun

SpecExport == ExportInit /\ [][ExportNext]_vars

\* the weekly rows of one district as the CSV may list them: a short history in
\* every row order, a long history in chronological order and with two rows
\* exchanged
ShortHistory == <<1, 2, 3, 4, 50>>
LongHistory == [i \in 1..13 |-> i]
Permuted(rows, f) == [i \in DOMAIN rows |-> rows[f[i]]]
Exchange(n, a, b) == [i \in 1..n |-> IF i = a THEN b ELSE IF i = b THEN a ELSE i]
OrderTables ==
    { Permuted(HistoryRows("Garoua", ShortHistory), f) :
        f \in { g \in [DOMAIN ShortHistory -> DOMAIN ShortHistory] :
                  \A a, b \in DOMAIN ShortHistory : a # b => g[a] # g[b] } }
    \cup { Permuted(HistoryRows("Garoua", LongHistory), Exchange(Len(LongHistory), a, b)) :
             a \in DOMAIN LongHistory, b \in DOMAIN LongHistory }

OrderInit ==
    /\ df \in OrderTables
    /\ AggIdle
    /\ RiskIdle
    /\ ForecastIdle
    /\ LisaIdle
    /\ LoadIdle
    /\ PredIdle
    /\ GeoIdle
    /\ ExplorerIdle
    /\ TemporalIdle

OrderNext ==
    \/ MakeSimplePrediction
    \/ MakeSimplePredictionBilingual
    \/ ChangeSelection

SpecOrder == OrderInit /\ [][OrderNext]_vars

\* Weekly surveillance rows of three seasons: the rows of a fixed frame followed
\* by up to MaxRows reported rows of the Nord region
SeasonYears == {2022, 2023, 2024}
SeasonWeeks == {1, 2}
SeasonFrame ==
    << [region |-> "Nord", district_clean |-> "Garoua", data_year |-> 2022,
        week_number |-> 1, cases |-> 2, deaths |-> 0,
        population |-> PopulationOf("Garoua", 2022)],
       [region |-> "Centre", district_clean |-> "Mfou", data_year |-> 2023,
        week_number |-> 1, cases |-> 2, deaths |-> 0,
        population |-> PopulationOf("Mfou", 2023)],
       [region |-> "Nord", district_clean |-> "Garoua", data_year |-> 2024,
        week_number |-> 2, cases |-> 5, deaths |-> 1,
        population |-> PopulationOf("Garoua", 2024)] >>
SeasonRecords ==
    { [region |-> "Nord", district_clean |-> "Garoua", data_year |-> y,
       week_number |-> w, cases |-> c, deaths |-> 0,
       population |-> PopulationOf("Garoua", y)] :
        y \in SeasonYears, w \in SeasonWeeks, c \in {0, 3} }
TemporalTables ==
    { base \o t : base \in {<<>>, SeasonFrame},
                  t \in UNION { [1..n -> SeasonRecords] : n \in 0..MaxRows } }

TemporalInit ==
    /\ df \in TemporalTables
    /\ AggIdle
    /\ RiskIdle
    /\ ForecastIdle
    /\ LisaIdle
    /\ GeoIdle
    /\ ExplorerIdle
    /\ TemporalIdle
    /\ PredIdle
    /\ LoadIdle

TemporalNext ==
    \/ TemporalBilingualMain
    \/ CheckOverviewMain
    \/ Rerun

SpecTemporal == TemporalInit /\ [][TemporalNext]_vars


-----------------------------------------------------------------------------
(* LISA labels *)

\* C5: on the LISA page every district whose pseudo p-value is at or above the
\* level chosen on the slider is labelled Not Significant, whatever its quadrant
C5_NotSignificantAtAlpha ==
    (page = "lisa" /\ ~stopped) =>
        \A y \in DOMAIN lisa_results : \A d \in GeoDistricts :
            LET r == lisa_results[y].rows[d]
            IN  r.lisa_pvalue >= significance_level =>
                    r.lisa_cluster \in { get_text("not_significant", l) : l \in Languages }

\* the districts of a labelled frame that carry a significant cluster label
SignificantDistricts(frame) ==
    { d \in GeoDistricts :
        frame.rows[d].lisa_cluster \notin
            { get_text("not_significant", l) : l \in Languages } }

\* every frame shown is the memoized frame of its table and year
LisaServedFromCache ==
    \A y \in DOMAIN lisa_results :
        /\ <<df, y>> \in DOMAIN lisa_cache
        /\ lisa_results[y] = lisa_cache[<<df, y>>]

\* a render leaves the memoized frames as they are
LisaCacheKept ==
    \A key \in DOMAIN lisa_cache :
        /\ key \in DOMAIN lisa_cache'
        /\ lisa_cache'[key] = lisa_cache[key]

\* C11: for the same table and year, the districts with a significant cluster
\* label at a level are a subset of those at any higher level: a render at a
\* lower level never adds a significant district, at a higher level never drops
\* one, and any two renders show the one memoized frame of the year
C11_SignificantSetMonotone ==
    /\ []LisaServedFromCache
    /\ [][/\ LisaCacheKept
          /\ \A y \in DOMAIN lisa_results \cap DOMAIN lisa_results' :
                /\ significance_level' <= significance_level =>
                      SignificantDistricts(lisa_results'[y])
                          \subseteq SignificantDistricts(lisa_results[y])
                /\ significance_level <= significance_level' =>
                      SignificantDistricts(lisa_results[y])
                          \subseteq SignificantDistricts(lisa_results'[y])]_vars

\* a render at the lowest level that shows, from a frame memoized by an earlier
\* render in the other language, a district with a significant cluster
C11_Witness ==
    /\ page = "lisa"
    /\ significance_level = 10
    /\ language = "fr"
    /\ \E y \in DOMAIN lisa_results :
          /\ SignificantDistricts(lisa_results[y]) # {}
          /\ lisa_results[y].rows["Garoua"].lisa_cluster = "High-High"

\* total cases of a year over all rows of the table
YearCases(y) == SumCol(SelectSeq(df, LAMBDA r : r.data_year = y), "cases")

\* total cases of a year over the districts of the GeoJSON
YearGeoCases(y) == SumKeys(gdf_year_cases(df, y), GeoDistricts, "cases")

C13_CountsIgnoreLanguage ==
    [][\A y \in DOMAIN cluster_counts \cap DOMAIN cluster_counts' :
          cluster_counts'[y] = cluster_counts[y]]_vars

-----------------------------------------------------------------------------
(* Loading failures *)

\* no candidate path holds a CSV that can be read
NoCsvReadable == \A i \in 1..2 : csv_files[i].status # "ok"

\* C14: when load_main_dataset is executed and the CSV cannot be read from any
\* candidate path, it returns an empty table without raising, and the page shows
\* an error and stops with no metric computed
C14_LoadFailureStops ==
    [][(/\ page' = "dashboard"
        /\ csv_files' = csv_files
        /\ dataset_cache = NoEntry
        /\ NoCsvReadable) =>
          /\ "exception" \notin messages'
          /\ dataset_cache' = [k |-> "frame", df |-> <<>>, error |-> TRUE]
          /\ df' = <<>>
          /\ "failed_load_data" \in messages'
          /\ stopped'
          /\ kpis' = NoKpis]_vars

\* a render after the load failed at both paths
C14_Witness ==
    /\ page = "dashboard"
    /\ NoCsvReadable
    /\ messages = {"error_loading_data", "failed_load_data"}
    /\ stopped

-----------------------------------------------------------------------------
(* Empty selections *)

\* the rows the filters of the page rendered last select
FilteredRows ==
    IF page = "minimal"
    THEN minimal_filtered_df(df, selected_years, selected_regions, week_range)
    ELSE IF page \in {"check_overview", "check_spatial", "spatial_bilingual"}
    THEN filter_years_regions(df, selected_years, selected_regions)
    ELSE df

\* C15: on every page that filters the table, a filter combination that matches
\* no row makes the page warn and stop: nothing is computed or drawn from an
\* empty filtered table
C15_EmptyFilterStops ==
    (page # "none" /\ FilteredRows = <<>>) => stopped

-----------------------------------------------------------------------------
(* Batch predictions *)

\* the forecast the page of the last render computes for district d
PageForecast(d) ==
    IF page = "predictions" THEN make_simple_prediction(df, d, horizon)
    ELSE make_simple_prediction_bilingual(df, d, horizon)

\* number of prediction rows of district d
RowsOf(d) == Cardinality({ i \in DOMAIN predictions : predictions[i].District = d })

\* districts with a row of the table in a selected region
SelectedDistricts ==
    { df[i].district_clean : i \in { j \in DOMAIN df : df[j].region \in selected_regions } }

BatchRendered ==
    /\ page \in {"predictions", "predictions_bilingual"}
    /\ df # <<>>
    /\ selected_regions # {}

\* C16: after the prediction loop of either Predictions page, every district of
\* the selected regions whose forecast is defined has exactly one prediction row
\* and every district whose forecast is None has none, wherever the districts
\* without a forecast stand in the processing order
C16_BatchSkipsUndefined ==
    BatchRendered =>
        \A d \in DistrictNames :
            RowsOf(d) = IF d \in SelectedDistricts /\ PageForecast(d).k # "None" THEN 1 ELSE 0

\* a district without a forecast is processed before a district with one, and the
\* later district has its row
C16_Witness ==
    /\ BatchRendered
    /\ page = "predictions"
    /\ LET ds == districts_to_predict(df, selected_regions)
       IN  \E i, j \in DOMAIN ds :
            /\ i < j
            /\ PageForecast(ds[i]).k = "None"
            /\ PageForecast(ds[j]).k # "None"
            /\ RowsOf(ds[j]) = 1

-----------------------------------------------------------------------------
(* Model loading *)

\* no loading method obtains a model from environment e
LoadFails(e) ==
    \/ ~e.pickle_available
    \/ e.pkl # "ok" /\ e.joblib # "loads" /\ e.xgboost # "loads"

\* pages/4_Predictions.py has run its loaders
ModelsLoaded == page = "predictions" /\ ml_models # NotLoaded

\* C17: whatever makes the loading of the regression or classification model fail
\* (file missing, format mismatch, library error, joblib or xgboost not installed
\* or failing), load_ml_model returns None and raises nothing, and the Predictions
\* page goes on to the heuristic predictions of the selected regions
C17_LoadFailureNotFatal ==
    page = "predictions" =>
        /\ "exception" \notin messages
        /\ ml_models # NotLoaded
        /\ LoadFails(ml_env.regression) => ml_models.regression.model = "None"
        /\ LoadFails(ml_env.classification) => ml_models.classification.model = "None"
        /\ df # <<>> /\ selected_regions # {} =>
              predictions = sort_predictions(prediction_rows(df, selected_regions, horizon))

\* the regression model file has a format pickle rejects, joblib and xgboost fail
\* on it too, and the page shows a heuristic prediction
C17_Witness ==
    /\ ModelsLoaded
    /\ ml_env.regression.pkl = "format_mismatch"
    /\ ml_env.regression.joblib = "fails"
    /\ ml_env.regression.xgboost = "fails"
    /\ ml_models.regression.model = "None"
    /\ predictions # <<>>

\* C18: when the serialized regression model file is absent, the loader returns
\* no model and emits no warning or error for it
C18_MissingFileSilent ==
    ModelsLoaded /\ ml_env.regression.pickle_available /\ ml_env.regression.pkl = "missing" =>
        /\ ml_models.regression.model = "None"
        /\ ml_models.regression.messages = {}
        /\ could_not_load("regression") \notin messages

-----------------------------------------------------------------------------
(* Missing district boundaries *)

\* a page with a map view has run with data and a selection to draw
MapPageRendered ==
    \/ page \in {"check_spatial", "spatial_bilingual"} /\ df # <<>> /\ selected_regions # {}
    \/ page = "lisa" /\ df # <<>>

\* C19: when the district boundaries cannot be loaded, a page with a map view is
\* not stopped: it draws the bar chart instead of the map and then its rankings
\* and regional comparison
C19_MapFallsBackToBars ==
    MapPageRendered /\ load_geojson(geojson) = "None" =>
        /\ ~stopped
        /\ {"bar_chart", "rankings", "regional"} \subseteq map_sections

-----------------------------------------------------------------------------
(* CSV export *)

\* the value of a cell of the table in memory
mem_cell(col, x) ==
    IF col \in StrColumns THEN [t |-> "str", v |-> <<x>>]
    ELSE IF col \in IntColumns THEN [t |-> "int", n |-> x, d |-> 1]
    ELSE IF x.k = "nan" THEN [t |-> "nan"]
    ELSE [t |-> "float", n |-> x.n, d |-> x.d]

\* equal values: both missing, the same text, or the same number
SameValue(a, b) ==
    IF a.t = "nan" \/ b.t = "nan" THEN a.t = b.t
    ELSE IF a.t = "str" \/ b.t = "str" THEN a.t = b.t /\ a.v = b.v
    ELSE a.n * b.d = b.n * a.d

Exported == page = "data_explorer" /\ explorer.exported

\* C20: the CSV the Data Explorer exports, parsed again, has the selected
\* columns, one row per row of the filtered table (also when the table shown is
\* cut at the row limit) and in every row and column the value of the filtered
\* table
C20_ExportRoundTrip ==
    Exported =>
        LET back == read_csv(explorer.csv_data)
        IN  /\ back.columns = explorer.selected_columns
            /\ Len(back.rows) = Len(explorer.df_filtered)
            /\ \A i \in DOMAIN back.rows : \A c \in explorer.selected_columns :
                  SameValue(back.rows[i][c], mem_cell(c, explorer.df_filtered[i][c]))

\* an export of more rows than the table shows, with a column holding missing
\* values
C20_Witness ==
    /\ Exported
    /\ Len(explorer.df_filtered) > explorer.max_rows
    /\ Len(explorer.df_display) = explorer.max_rows
    /\ "population" \in explorer.selected_columns
    /\ \E i \in DOMAIN explorer.df_filtered : explorer.df_filtered[i].population.k = "nan"
    /\ Len(explorer.csv_data.lines) = Len(explorer.df_filtered)

-----------------------------------------------------------------------------
(* Case-fatality rate and aggregation consistency *)

\* every CFR value of the last render, paired with the summed cases of its group
CfrValues ==
    (IF kpis.overall_cfr.k = "none" THEN {}
     ELSE { <<kpis.total_cases, kpis.overall_cfr>> })
    \cup { <<yearly_data[y].cases, yearly_data[y].cfr>> : y \in DOMAIN yearly_data }
    \cup { <<regional_data[x].total_cases, regional_data[x].cfr>> : x \in DOMAIN regional_data }
    \cup { <<district_data[x].cases, district_data[x].cfr>> : x \in DOMAIN district_data }

\* C1: every CFR value the dashboard computes is a finite number, and is exactly 0
\* whenever the summed cases of its group are 0 (also when deaths exceed cases).
C1_CfrZeroWithoutCases ==
    \A p \in CfrValues : IsFinite(p[2]) /\ (p[1] = 0 => IsZero(p[2]))

\* C2: on the Check overview page the per-region case totals of get_regional_data
\* add up to the total case count compute_kpis reports for the same selection.
C2_RegionalSumIsTotal ==
    (page = "check_overview" /\ ~stopped) =>
        SumKeys(regional_data, DOMAIN regional_data, "total_cases") = kpis.total_cases

\* two regions with cases, a third row left out by the year selection or not
C2_Witness ==
    /\ page = "check_overview"
    /\ ~stopped
    /\ Cardinality(DOMAIN regional_data) = 2
    /\ \A x \in DOMAIN regional_data : regional_data[x].total_cases > 0
    /\ kpis.total_cases = 4

\* C10: when every record has deaths <= cases, every computed CFR value lies in
\* the closed interval [0, 100].
C10_CfrWithinPercent ==
    (\A i \in DOMAIN df : df[i].deaths <= df[i].cases) =>
        \A p \in CfrValues : InRange0to100(p[2])

-----------------------------------------------------------------------------
(* Risk tiers *)

TierRank(t) == CASE t = "Low" -> 0 [] t = "Moderate" -> 1 [] t = "High" -> 2
                 [] t = "Critical" -> 3

\* the tier given to value v is consistent with strict percentile boundaries
StrictAt(v, tier, series) ==
    /\ FEq(v, quantile(series, 90)) => tier # "Critical"
    /\ FEq(v, quantile(series, 75)) => tier \in {"Moderate", "Low"}
    /\ FEq(v, quantile(series, 50)) => tier = "Low"

\* C3: a value equal to the 75th percentile of the reference distribution is never
\* classified High or Critical, a value equal to the 90th percentile is never Critical
\* and a value equal to the 50th percentile is Low; for district totals
\* [100,80,50,20,5] the district with 80 is classified below High.
C3_StrictBoundaries ==
    /\ risk_page \in {"predictions", "predictions_bilingual"} =>
            StrictAt(predicted_cases, risk_level, cases_series)
    /\ risk_page = "check_overview" =>
            /\ \A i \in DOMAIN top_districts :
                    StrictAt(Num(top_districts[i].cases, 1), top_districts[i].risk_level,
                             cases_series)
            /\ cases_series = RankingScenario =>
                    /\ top_districts[2].cases = 80
                    /\ top_districts[2].risk_level \in {"Moderate", "Low"}

\* the ranking scenario was classified, and 80 is its 75th percentile
C3_Witness ==
    /\ risk_page = "check_overview"
    /\ cases_series = RankingScenario
    /\ quantile(cases_series, 75) = Num(80, 1)
    /\ top_districts[2].risk_level = "Moderate"
    /\ top_districts[1].risk_level = "Critical"

\* C4: for a fixed reference distribution and two values a < b classified by the same
\* classifier one after the other, the tier of b is not below the tier of a.
C4_Monotonic ==
    [][ ( /\ risk_page \in {"predictions", "predictions_bilingual"}
          /\ risk_page' = risk_page
          /\ cases_series' = cases_series
          /\ FGt(predicted_cases', predicted_cases) )
        => TierRank(risk_level') >= TierRank(risk_level) ]_vars

\* a reference with three distinct percentiles (20, 35, 62), and a value strictly
\* between the upper two classified High
C4_Witness ==
    /\ risk_page = "predictions_bilingual"
    /\ cases_series = <<0, 20, 20, 80>>
    /\ predicted_cases = Num(50, 1)
    /\ risk_level = "High"
    /\ FGt(quantile(cases_series, 90), predicted_cases)
    /\ FGt(predicted_cases, quantile(cases_series, 75))

-----------------------------------------------------------------------------
(* Forecast *)

CasesOf(rows) == [i \in DOMAIN rows |-> rows[i].cases]

StepScenario == <<5, 5, 5, 5, 50, 50, 50, 50>>

ScenarioCalled ==
    /\ forecast.page # "none"
    /\ CasesOf(forecast.history) = StepScenario
    /\ forecast.weeks_ahead = 1

C7_ShortHistoryIsNone ==
    (forecast.page # "none" /\ Len(forecast.history) < 4) => forecast.value = None

C7_Witness ==
    /\ forecast.page = "predictions"
    /\ Len(forecast.history) = 3
    /\ CasesOf(forecast.history) = <<50, 50, 50>>
    /\ forecast.value = None

\* C8: a call of the forecast with the same district history and the same horizon as
\* the call before it returns the same value, whatever happened to the other
\* districts' rows and to the session language in between.
C8_Deterministic ==
    [][ ( /\ forecast.page # "none"
          /\ forecast'.page = forecast.page
          /\ forecast'.history = forecast.history
          /\ forecast'.weeks_ahead = forecast.weeks_ahead )
        => forecast'.value = forecast.value ]_vars

\* a repeated call, after the language was switched and with another district's rows
\* in the table, that returned a number
C8_Witness ==
    /\ forecast.rerun
    /\ forecast.page = "predictions"
    /\ forecast.district = "Garoua"
    /\ forecast.value.k = "num"
    /\ forecast.value.n > 0
    /\ language = "fr"
    /\ district_rows(df, "Mfou") # <<>>

\* C9: a forecast that is defined is greater than or equal to 0.
C9_NonNegative ==
    forecast.value.k = "num" => IsNonNegative(forecast.value)

\* a steep downward trend: 0 + half of (0 - 50) is negative before max(0, .)
C9_Witness ==
    /\ forecast.page = "predictions"
    /\ CasesOf(forecast.history) = Rep(50, 8) \o Rep(0, 4)
    /\ forecast.weeks_ahead = 12
    /\ IsNumber(forecast.value, 0, 1)

\* the rows are in chronological order, one per week
IsChrono(rows) == \A i \in 1..(Len(rows) - 1) : PeriodKey(rows[i]) < PeriodKey(rows[i + 1])

\* sum of the cases of the observations from the a-th most recent to the b-th
\* most recent of a chronological history
RecentSum(rows, a, b) ==
    LET h == CasesOf(rows)
        RECURSIVE S(_)
        S(i) == IF i > b THEN 0 ELSE h[Len(h) + 1 - i] + S(i + 1)
    IN  S(a)

\* x is (a / b) * (tn / td) ** (e / 100)
IsPower(x, a, b, tn, td, e) ==
    IF e = 100 THEN IsNumber(x, a * tn, b * td)
    ELSE IF tn = td THEN IsNumber(x, a, b)
    ELSE IF tn = 0 THEN IsNumber(x, 0, 1)
    ELSE /\ x.k = "num"
         /\ SameRatio(x.n, x.d, a, b)
         /\ SameRatio(x.tn, x.td, tn, td)
         /\ x.e = e

\* a call of the forecast of pages/4_Predictions_BILINGUAL.py that returned a number
BilingualForecast ==
    /\ forecast.page = "predictions_bilingual"
    /\ forecast.value.k = "num"
    /\ IsChrono(forecast.history)

\* the trend factor of the history, as numerator and denominator: the mean of the
\* 4 most recent observations over the mean of the 8 before them, 1 when that
\* mean is 0
TrendN(rows) == IF RecentSum(rows, 5, 12) > 0 THEN RecentSum(rows, 1, 4) * 8 ELSE 1
TrendD(rows) == IF RecentSum(rows, 5, 12) > 0 THEN 4 * RecentSum(rows, 5, 12) ELSE 1

DampeningAt(w) == IF 100 - (w - 1) * 5 > 70 THEN 100 - (w - 1) * 5 ELSE 70

BilingualCalled ==
    /\ forecast.page = "predictions_bilingual"
    /\ Len(forecast.history) >= 12
    /\ IsChrono(forecast.history)

\* C22: when the mean of the 8 observations before the 4 most recent is 0 the
\* trend factor is 1 and the forecast is the base average, a finite number, at
\* every horizon; otherwise the trend factor is the mean of the 4 most recent
\* observations over that mean, so that at horizon 1 the forecast is the base
\* average times this quotient
C22_TrendFactor ==
    BilingualCalled =>
        LET s12 == RecentSum(forecast.history, 1, 12)
            s8 == RecentSum(forecast.history, 5, 12)
            s4 == RecentSum(forecast.history, 1, 4)
        IN  /\ s8 = 0 => IsNumber(forecast.value, s12, 12)
            /\ s8 > 0 /\ forecast.weeks_ahead = 1 =>
                  IsNumber(forecast.value, s12 * s4 * 8, 12 * 4 * s8)

\* 8 weeks without cases, then 4 weeks of 50, at horizon 4: the forecast is 200 / 12
C22_Witness ==
    /\ BilingualCalled
    /\ CasesOf(forecast.history) = Rep(0, 8) \o Rep(50, 4)
    /\ forecast.weeks_ahead = 4
    /\ IsNumber(forecast.value, 50, 3)

\* the rows of the table in chronological order
Chronological(rows) == Reverse(SortRowsDesc(rows))

\* C23: the forecast of a district is the forecast computed from its rows in
\* chronological order: the order of the rows in the table does not change it
C23_RowOrderIrrelevant ==
    /\ forecast.page = "predictions" =>
          forecast.value
            = make_simple_prediction(Chronological(df), forecast.district,
                                     forecast.weeks_ahead)
    /\ forecast.page = "predictions_bilingual" =>
          forecast.value
            = make_simple_prediction_bilingual(Chronological(df), forecast.district,
                                               forecast.weeks_ahead)

-----------------------------------------------------------------------------
(* Epidemic weeks and year-over-year change *)

TemporalDrawn == page = "temporal_bilingual" /\ ~stopped

\* the rows of df inside the year and region selection
Selected == { i \in DOMAIN df : /\ df[i].data_year \in selected_years
                               /\ df[i].region \in selected_regions }

RowsAt(y, w) == { i \in Selected : df[i].data_year = y /\ df[i].week_number = w }

RECURSIVE CasesIn(_)
CasesIn(S) ==
    IF S = {} THEN 0
    ELSE LET i == CHOOSE i \in S : TRUE IN df[i].cases + CasesIn(S \ {i})

Periods == SeasonYears \X SeasonWeeks
ReportedPeriods == { p \in Periods : RowsAt(p[1], p[2]) # {} }
WeekTotal(p) == CasesIn(RowsAt(p[1], p[2]))
Percentile90 ==
    quantile(ValuesOf([p \in ReportedPeriods |-> WeekTotal(p)], ReportedPeriods), 90)

\* C24: a (year, week) is flagged as an epidemic week exactly when its case total
\* over the filtered records is strictly greater than the 90th percentile of the
\* weekly totals of the same filter; when all weekly totals are equal no week is
\* flagged.
C24_EpidemicWeeksAboveP90 ==
    TemporalDrawn =>
        /\ \A p \in Periods :
              p \in temporal.epidemic_weeks <=>
                  /\ p \in ReportedPeriods
                  /\ FGt(Num(WeekTotal(p), 1), Percentile90)
        /\ (\A p, q \in ReportedPeriods : WeekTotal(p) = WeekTotal(q))
              => temporal.epidemic_weeks = {}

\* a render with four reported weeks of which one is flagged and one of the
\* others lies exactly at a lower total
C24_Witness ==
    /\ TemporalDrawn
    /\ Cardinality(ReportedPeriods) >= 4
    /\ Cardinality(temporal.epidemic_weeks) = 1
    /\ \E p, q \in ReportedPeriods \ temporal.epidemic_weeks : WeekTotal(p) # WeekTotal(q)

\* a render in which every reported week has the same positive total
C24_WitnessEqual ==
    /\ TemporalDrawn
    /\ Cardinality(ReportedPeriods) >= 2
    /\ \A p \in ReportedPeriods : WeekTotal(p) = 3

CasesOfYear(y) == CasesIn({ i \in Selected : df[i].data_year = y })

\* (current - prior) / prior * 100 when prior > 0, exactly 0 when prior = 0
IsYoY(x, current, prior) ==
    /\ x.k = "num"
    /\ prior > 0 => x.n * prior = (current - prior) * 100 * x.d
    /\ prior = 0 => x = Num(0, 1)

OverviewDrawn == page = "check_overview" /\ ~stopped

\* the latest year of the selection and the latest week reported in that year
LatestYear == MaxOf({ df[i].data_year : i \in Selected })
LatestWeek == MaxOf({ df[i].week_number : i \in { j \in Selected : df[j].data_year = LatestYear } })

\* C25: the year-over-year change is (current - prior) / prior * 100 when prior > 0
\* and exactly 0 when prior = 0, never a division error: in compute_kpis for the
\* latest week against the same week of the previous year, and on the temporal
\* page for the two most recent selected years.
C25_YearOverYear ==
    /\ OverviewDrawn /\ Selected # {} =>
          IsYoY(kpis.yoy_change, WeekTotal(<<LatestYear, LatestWeek>>),
                WeekTotal(<<LatestYear - 1, LatestWeek>>))
    /\ OverviewDrawn /\ Selected = {} => kpis.yoy_change = Num(0, 1)
    /\ TemporalDrawn /\ Cardinality(selected_years) > 1 /\ temporal.error = "none" =>
          LET recent == MaxOf(selected_years)
              prev == MaxOf(selected_years \ {recent})
          IN  /\ temporal.compared = <<recent, prev>>
              /\ IsYoY(temporal.change, CasesOfYear(recent), CasesOfYear(prev))

\* the temporal page compares a year with cases against a prior year without any,
\* and in another render the overview compares against a prior week with cases
C25_Witness ==
    /\ TemporalDrawn
    /\ selected_years = SeasonYears
    /\ temporal.compared = <<2024, 2023>>
    /\ CasesOfYear(2024) > 0
    /\ CasesOfYear(2023) = 0

C25_WitnessOverview ==
    /\ OverviewDrawn
    /\ kpis.prev_year_cases > 0
    /\ kpis.current_week_cases > kpis.prev_year_cases

-----------------------------------------------------------------------------
(* Regional incidence *)

\* the first non-null population among the selected rows of a district
DistrictPopulation(d) ==
    LET known == { i \in Selected : /\ df[i].district_clean = d
                                    /\ df[i].population.k # "nan" }
    IN  IF known = {} THEN NaN
        ELSE df[CHOOSE i \in known : \A j \in known : i <= j].population

DistrictsOfRegion(x) == { df[i].district_clean : i \in { j \in Selected : df[j].region = x } }

RECURSIVE PopulationOver(_)
PopulationOver(ds) ==
    IF ds = {} THEN 0
    ELSE LET d == CHOOSE d \in ds : TRUE
         IN  DistrictPopulation(d).n + PopulationOver(ds \ {d})

RegionCases(x) == CasesIn({ i \in Selected : df[i].region = x })

RegionalDrawn == page \in {"check_overview", "spatial_bilingual"} /\ ~stopped

\* C26: the incidence rate of a region is its summed cases divided by the sum of
\* its districts' populations (each the district's first non-null value), times
\* 100,000, in the regional aggregate of Check/pages/1_Overview.py and in the one
\* of pages/2_Spatial_Analysis_BILINGUAL.py alike.
C26_RegionalIncidence ==
    RegionalDrawn =>
        \A x \in DOMAIN regional_data :
            (\A d \in DistrictsOfRegion(x) : DistrictPopulation(d).k = "num") =>
                FEq(regional_data[x].incidence_rate,
                    Num(RegionCases(x) * 100000, PopulationOver(DistrictsOfRegion(x))))

\* the same statement for the spatial page alone
C26_SpatialIncidence ==
    page = "spatial_bilingual" => C26_RegionalIncidence

\* the spatial page drew a region of two districts with cases
C26_SpatialWitness ==
    /\ page = "spatial_bilingual" /\ ~stopped
    /\ \E x \in DOMAIN regional_data :
          /\ Cardinality(DistrictsOfRegion(x)) = 2
          /\ regional_data[x].total_cases > 0

-----------------------------------------------------------------------------
(* Predictions and the loaded model *)

\* the statistical forecast and tier of a district, from the table alone
StatisticalForecast(d) == make_simple_prediction(df, d, horizon)
StatisticalTier(d) ==
    classify_risk_level(StatisticalForecast(d), cases_column(district_rows(df, d)))

ModelAvailable == ml_models.regression.model # "None"

-----------------------------------------------------------------------------
(* The LISA visualization section *)

VisualizationReached == page = "lisa" /\ lisa_view.k # "none"

\* C28: whenever a render of the LISA page reaches the visualization section,
\* lisa_results is not empty and in Single Year mode holds the selected year: the
\* lookup of the year does not fail and the grid has at least one column,
\* whichever years are selected and whichever of them have no result.
C28_VisualizationHasResults ==
    VisualizationReached =>
        /\ DOMAIN lisa_results # {}
        /\ lisa_view.error = "none"
        /\ lisa_view.n_years = Cardinality(DOMAIN lisa_results)
        /\ analysis_mode = "Single Year" =>
              /\ selected_years = {lisa_view.year}
              /\ lisa_view.year \in DOMAIN lisa_results
        /\ analysis_mode # "Single Year" =>
              /\ lisa_view.n_cols >= 1
              /\ lisa_view.n_rows * lisa_view.n_cols >= lisa_view.n_years

\* a grid of one result although two years are selected
C28_Witness ==
    /\ VisualizationReached
    /\ analysis_mode = "All Years Grid"
    /\ Cardinality(selected_years) = 2
    /\ lisa_view.n_years = 1
    /\ lisa_view.n_cols = 1

-----------------------------------------------------------------------------
(* The four tiers *)

Classified == risk_page \in {"predictions", "predictions_bilingual"}

\* the 50th, 75th and 90th percentile of the reference distribution are one value
PercentilesCoincide ==
    /\ FEq(quantile(cases_series, 50), quantile(cases_series, 75))
    /\ FEq(quantile(cases_series, 75), quantile(cases_series, 90))

\* C29: for every reference distribution of non-negative counts the classifier of
\* either Predictions page returns one of the four tiers, a predicted value of 0 is
\* Low, and when the three percentiles coincide the tier is Low or Critical.
C29_TiersOfDegenerateReference ==
    Classified =>
        /\ risk_level \in {"Low", "Moderate", "High", "Critical"}
        /\ IsZero(predicted_cases) => risk_level = "Low"
        /\ PercentilesCoincide =>
              /\ risk_level \in {"Low", "Critical"}
              /\ (risk_level = "Critical") = FGt(predicted_cases, quantile(cases_series, 90))

\* a reference of zeros only: the three percentiles are 0 and a positive value is
\* Critical
C29_Witness ==
    /\ risk_page = "predictions"
    /\ cases_series = <<0, 0, 0, 0>>
    /\ PercentilesCoincide
    /\ predicted_cases = Num(1, 1)
    /\ risk_level = "Critical"

-----------------------------------------------------------------------------
(* The Data Explorer filters *)

ExplorerFiltered == page = "data_explorer" /\ df # <<>>

\* a record passes every active filter of the last render
PassesFilters(r) ==
    /\ selected_years # {} => r.data_year \in selected_years
    /\ r.week_number >= week_range[1] /\ r.week_number <= week_range[2]
    /\ selected_regions # {} => r.region \in selected_regions
    /\ explorer.selected_districts # {} => r.district_clean \in explorer.selected_districts
    /\ explorer.cases_filter = "positive" => r.cases > 0
    /\ explorer.cases_filter = "custom" =>
          r.cases >= explorer.cases_min /\ r.cases <= explorer.cases_max

\* C30: the filtered table of the Data Explorer holds exactly the loaded records
\* that satisfy all active filters (years, week range, regions, districts, cases
\* range), in the order of the loaded table; an empty year, region or district
\* selection restricts nothing.
C30_FilteredIsConjunction ==
    ExplorerFiltered =>
        /\ explorer.df_filtered = SelectSeq(df, PassesFilters)
        /\ explorer.records = Cardinality({ i \in DOMAIN df : PassesFilters(df[i]) })

\* no region selected, a district filter and a custom range active: some records
\* pass and some do not
C30_Witness ==
    /\ ExplorerFiltered
    /\ selected_regions = {}
    /\ selected_years = {2023}
    /\ explorer.cases_filter = "custom"
    /\ explorer.cases_min = 1
    /\ explorer.records > 0
    /\ explorer.records < Cardinality({ i \in DOMAIN df : df[i].data_year = 2023 })

\* a district selection narrows the table
C30_WitnessDistricts ==
    /\ ExplorerFiltered
    /\ explorer.selected_districts = {"Mfou"}
    /\ explorer.cases_filter = "all"
    /\ explorer.records = 1

====
